---- MODULE Spec2Model ----
(***************************************************************************)
(* A model of src/win32/thread.c, the Win32 back-end of the LibVLC         *)
(* threading layer: mutexes (dynamic and static), condition variables on   *)
(* a manual-reset event, the read/write lock, thread-local keys, threads   *)
(* with cooperative cancellation, and timers.                              *)
(*                                                                         *)
(* Every thread has a program counter pc[t] and a stack of return labels   *)
(* stk[t]; one action is one step of one function of thread.c.  The        *)
(* specifications at the end differ only in which API calls the threads    *)
(* make.                                                                   *)
(***************************************************************************)
EXTENDS Integers, Sequences, FiniteSets, TLC

\* ------------------------------------------------------------------ bounds
NThreads == 3
NRw == 2
NMx == 2
NCond == 3
NTimed == 1
NStatic == 1
MaxRead == 2
MaxTicks == 1
NCan == 3
NMis == 2
NKeys == 2
MaxVal == 2
MaxPush == 2
NTimers == 1
MaxSched == 2
MaxResets == 2
MaxNest == 1

\* ------------------------------------------------------- program constants
\* ULONG_MAX is 2^32 - 1, above the integers TLC holds; the readers of the model
\* stay below NThreads * MaxRead, so the overflow test is kept with TLC's largest.
ReadersLimit == 2147483647
MaxDelay == 2147483647
MsDiv == 1000
CLOCK_FREQ == 1000000
SleepStatic == 50000

Threads == 1..NThreads
\* The keys vlc_threadvar_create can make; key 0 is thread_key, which DllMain
\* creates with no destructor.
Keys == 1..NKeys
thread_key == 0
NoKey == -1
\* The values a thread sets for a key; 0 is NULL.
Values == 1..MaxVal
Timers == 1..NTimers
INVALID_HANDLE_VALUE == 0
StaticMutexes == 1..NStatic
\* One more static mutex, for the threads that need a second one whatever
\* NStatic is.
OtherMutex == NStatic + 1
Infinite == -1
NoThread == 0

\* The dynamic mutexes (critical sections) and the condition variables.
DynMutexes == {"super", "rw", "um"}
\* "ucv" is made by vlc_cond_init, "dcv" by vlc_cond_init_daytime; "scv" is a
\* static condition variable (VLC_STATIC_COND: all zero, no event handle).
CondVars == {"super", "rw", "ucv", "dcv", "scv"}
\* Tick sizes of the clock, in microseconds.
TickSteps == {500, 1000000}

VARIABLES
    pc,         \* pc[t]: the label thread t is at
    stk,        \* stk[t]: return labels of the calls in progress
    aborted,    \* abort() or a failed assert() ended the process
    now,        \* mdate(), in microseconds
    ticks,      \* number of clock ticks so far
    mx_owner,   \* CRITICAL_SECTION owner, NoThread when free
    mx_depth,   \* CRITICAL_SECTION recursion count
    ev,         \* ev[c]: state of the manual-reset event of condvar c
    cv_handle,  \* cv_handle[c]: p_condvar->handle is not NULL
    cw,         \* cw[t]: locals of vlc_cond_wait / vlc_cond_timedwait
    readers,    \* vlc_rwlock_t.readers
    writer,     \* vlc_rwlock_t.writer
    rheld,      \* rheld[t]: read locks t took and has not released
    wheld,      \* wheld[t]: t took the write lock and has not released it
    rw_bad,     \* rw_bad[t]: t's current vlc_rwlock_unlock is of a lock it does not hold
    wt,         \* wt[t]: the wait of vlc_WaitForMultipleObjects t is in
    th_rec,     \* th_rec[t]: vlc_threadvar_get(thread_key) is not NULL
    killable,   \* struct vlc_thread.killable
    killed,     \* struct vlc_thread.killed
    apc,        \* apc[t]: a queued vlc_cancel_self APC is pending on t
    ended,      \* ended[t]: the OS thread has terminated (its handle is signalled)
    sm_locked,  \* sm_locked[m]: vlc_mutex_t.locked of static mutex m
    sm_cont,    \* sm_cont[m]: vlc_mutex_t.contention of static mutex m
    sm_held,    \* sm_held[t]: the static mutexes t locked and has not unlocked
    sm_bad,     \* sm_bad[t]: t's current vlc_mutex_unlock is of a mutex it does not hold
    ml,         \* ml[t]: locals of the static-mutex functions (mutex, canc, result)
    mw,         \* mw[t]: the deadline of the mwait t is in
    th_alloc,   \* th_alloc[t]: the struct vlc_thread of t is allocated
    th_data,    \* struct vlc_thread.data
    cleaners,   \* struct vlc_thread.cleaners, the list from its head
    pushed,     \* pushed[t]: the handlers t pushed and has not popped, in push order
    hlog,       \* hlog[t]: the cleanup handlers called on t, in call order
    tcp,        \* tcp[t]: p of the loop of vlc_testcancel, the rest of the list
    hit,        \* hit[t]: vlc_cancel found t blocked with cancellation enabled
    jn,         \* jn[t]: th of the vlc_join t is in
    reg,        \* reg[t]: what the vlc_savecancel of the open region returned
    sp,         \* sp[t]: the vlc_savecancel whose result goes straight to
                \* vlc_restorecancel: its result, killable and killed before it
    tvar,       \* tvar[k]: struct vlc_threadvar of key k
    vlc_threadvar_last,
    tls,        \* tls[t][k]: TlsGetValue (k->id) on thread t, 0 for NULL
    tkey,       \* tkey[t]: key and value of vlc_thread_cleanup
    dlog,       \* dlog[t]: the destructor calls on t, in call order
    snap,       \* snap[t]: tls[t] when t entered vlc_thread_cleanup
    tm_live,    \* tm_live[i]: struct vlc_timer i is allocated
    tm_handle,  \* struct vlc_timer.handle
    tm_regs,    \* tm_regs[i]: the timer-queue timers of the OS that call back for timer i
    tm_next,    \* number of timer-queue timers created so far
    ts,         \* ts[t]: arguments of the vlc_timer_schedule t is in
    detached,   \* struct vlc_thread.detached
    th_free,    \* th_free[t]: who called free () on the struct vlc_thread of t, in order
    tv,         \* tv[t]: var and destr of the vlc_threadvar_create or _delete t is in
    resets,     \* number of vlc_threadvar_set calls made by destructors so far
    korder      \* the keys linked and not unlinked, in the order of their linking

coreVars == <<pc, stk, aborted, now, ticks, mx_owner, mx_depth, ev, cv_handle, cw, wt>>
rwVars == <<readers, writer, rheld, wheld, rw_bad>>
canVars == <<th_rec, killable, killed, apc, ended>>
smVars == <<sm_locked, sm_cont, sm_held, sm_bad, ml>>
mwVars == <<mw>>
thVars == <<th_alloc, th_data, cleaners, pushed, hlog, tcp, hit, jn, reg, sp>>
tlsVars == <<tvar, vlc_threadvar_last, tls, tkey, dlog, snap>>
tmVars == <<tm_live, tm_handle, tm_regs, tm_next, ts>>
recVars == <<detached, th_free>>
keyVars == <<tv, resets, korder>>
extVars == <<thVars, tlsVars, tmVars, recVars, keyVars>>
lockVars == <<rwVars, smVars>>
sysVars == <<aborted, now, ticks, mx_owner, mx_depth, ev, cv_handle, cw>>
exceptThread == <<lockVars, mwVars, tmVars, recVars, keyVars>>
vars == <<coreVars, rwVars, canVars, smVars, mwVars, extVars>>

\* What an action of one part of the file leaves alone.
exceptCoreCan == <<rwVars, smVars, mwVars, extVars>>
exceptCore == <<exceptCoreCan, canVars>>
exceptCoreMw == <<rwVars, smVars, canVars, extVars>>
exceptCoreCanMw == <<rwVars, smVars, extVars>>
exceptRw == <<canVars, smVars, mwVars, extVars>>
exceptSmCan == <<rwVars, mwVars, extVars>>

\* past: the deadline of a timed wait was not after the clock at the call.
NoCw == [cv |-> "none", mx |-> "none", timed |-> FALSE, deadline |-> 0, past |-> FALSE,
         rv |-> "none"]
NoMl == [m |-> 0, canc |-> FALSE, woke |-> FALSE, rv |-> "none"]
\* owed: the event was set while the thread was in this wait of vlc_cond_wait
\* with the mutex released.
NoWait == [kind |-> "none", obj |-> "none", delay |-> 0, until |-> Infinite, res |-> "none",
           owed |-> FALSE]

NoTvar == [live |-> FALSE, destroy |-> FALSE, prev |-> NoKey, next |-> NoKey]
NoTkey == [key |-> NoKey, value |-> 0]
NoReg == [open |-> FALSE, state |-> FALSE]
NoSp == [state |-> FALSE, kb |-> FALSE, kd |-> FALSE, done |-> FALSE]
NoTv == [key |-> NoKey, destr |-> FALSE]
NoTs == [timer |-> 0, absolute |-> FALSE, value |-> 0, interval |-> 0]

Init ==
    /\ pc = [t \in Threads |-> "idle"]
    /\ stk = [t \in Threads |-> <<>>]
    /\ aborted = FALSE
    /\ now = 0
    /\ ticks = 0
    /\ mx_owner = [m \in DynMutexes |-> NoThread]
    /\ mx_depth = [m \in DynMutexes |-> 0]
    /\ ev = [c \in CondVars |-> FALSE]
    /\ cv_handle = [c \in CondVars |-> c # "scv"]
    /\ cw = [t \in Threads |-> NoCw]
    /\ readers = 0
    /\ writer = NoThread
    /\ rheld = [t \in Threads |-> 0]
    /\ wheld = [t \in Threads |-> FALSE]
    /\ rw_bad = [t \in Threads |-> FALSE]
    /\ wt = [t \in Threads |-> NoWait]
    /\ th_rec = [t \in Threads |-> FALSE]
    /\ killable = [t \in Threads |-> FALSE]
    /\ killed = [t \in Threads |-> FALSE]
    /\ apc = [t \in Threads |-> FALSE]
    /\ ended = [t \in Threads |-> FALSE]
    /\ sm_locked = [m \in StaticMutexes \cup {OtherMutex} |-> FALSE]
    /\ sm_cont = [m \in StaticMutexes \cup {OtherMutex} |-> 0]
    /\ sm_held = [t \in Threads |-> {}]
    /\ sm_bad = [t \in Threads |-> FALSE]
    /\ ml = [t \in Threads |-> NoMl]
    /\ mw = [t \in Threads |-> 0]
    /\ th_alloc = [t \in Threads |-> FALSE]
    /\ th_data = [t \in Threads |-> "none"]
    /\ cleaners = [t \in Threads |-> <<>>]
    /\ pushed = [t \in Threads |-> <<>>]
    /\ hlog = [t \in Threads |-> <<>>]
    /\ tcp = [t \in Threads |-> <<>>]
    /\ hit = [t \in Threads |-> FALSE]
    /\ jn = [t \in Threads |-> NoThread]
    /\ reg = [t \in Threads |-> NoReg]
    /\ sp = [t \in Threads |-> NoSp]
    /\ tvar = [k \in Keys \cup {thread_key} |->
                  IF k = thread_key THEN [NoTvar EXCEPT !.live = TRUE] ELSE NoTvar]
    /\ vlc_threadvar_last = thread_key
    /\ tls = [t \in Threads |-> [k \in Keys |-> 0]]
    /\ tkey = [t \in Threads |-> NoTkey]
    /\ dlog = [t \in Threads |-> <<>>]
    /\ snap = [t \in Threads |-> [k \in Keys |-> 0]]
    /\ tm_live = [i \in Timers |-> FALSE]
    /\ tm_handle = [i \in Timers |-> INVALID_HANDLE_VALUE]
    /\ tm_regs = [i \in Timers |-> {}]
    /\ tm_next = 0
    /\ ts = [t \in Threads |-> NoTs]
    /\ detached = [t \in Threads |-> FALSE]
    /\ th_free = [t \in Threads |-> <<>>]
    /\ tv = [t \in Threads |-> NoTv]
    /\ resets = 0
    /\ korder = <<thread_key>>

\* ------------------------------------------------------------ control flow
Goto(t, l) == pc' = [pc EXCEPT ![t] = l]

Call(t, target, ret) ==
    /\ pc' = [pc EXCEPT ![t] = target]
    /\ stk' = [stk EXCEPT ![t] = Append(@, ret)]

RetLabel(t) == stk[t][Len(stk[t])]
PopStk(t) == [stk EXCEPT ![t] = SubSeq(@, 1, Len(@) - 1)]

\* abort(), or an assert() that fails: the process ends, no thread runs on.
Abort ==
    /\ aborted' = TRUE
    /\ pc' = [u \in Threads |-> "aborted"]

\* --------------------------------------------------- dynamic mutexes
\* EnterCriticalSection: free, or already owned by the caller (recursive).
CanEnter(t, m) == mx_owner[m] \in {NoThread, t}

Enter(t, m) ==
    /\ CanEnter(t, m)
    /\ mx_owner' = [mx_owner EXCEPT ![m] = t]
    /\ mx_depth' = [mx_depth EXCEPT ![m] = @ + 1]

\* LeaveCriticalSection
Leave(t, m) ==
    /\ mx_depth' = [mx_depth EXCEPT ![m] = @ - 1]
    /\ mx_owner' = [mx_owner EXCEPT ![m] = IF mx_depth[m] = 1 THEN NoThread ELSE @]

\* ------------------------------------------------------------------ clock
Tick ==
    /\ ~aborted
    /\ ticks < MaxTicks
    /\ \E d \in TickSteps : now' = now + d
    /\ ticks' = ticks + 1
    /\ UNCHANGED <<pc, stk, aborted, mx_owner, mx_depth, ev, cv_handle, cw, wt>>
    /\ UNCHANGED exceptCore

\* ------------------------------------------- vlc_WaitForMultipleObjects
\* The caller fills wt[t] (the object and the delay in milliseconds, Infinite
\* for INFINITE) and calls "wfmo"; the result is in wt[t].res on return:
\* "object" (WAIT_OBJECT_0), "io" (WAIT_IO_COMPLETION), "timeout" (WAIT_TIMEOUT).
Signalled(w) ==
    IF w.kind = "event" THEN ev[w.obj]
    ELSE IF w.kind = "thread" THEN ended[w.obj]
    ELSE FALSE

\* What WaitForMultipleObjectsEx / SleepEx can answer at once: a signalled
\* object satisfies the wait, a pending APC is run and ends an alertable wait.
WaitNow(t) ==
    LET now_ == (IF Signalled(wt[t]) THEN {"object"} ELSE {})
                \cup (IF apc[t] THEN {"io"} ELSE {})
    IN  IF now_ # {} THEN now_
        ELSE IF wt[t].delay = 0 THEN {"timeout"} ELSE {"block"}

WaitStart(t) ==
    /\ pc[t] = "wfmo"
    /\ \E r \in WaitNow(t) :
        /\ pc' = [pc EXCEPT ![t] = IF r = "block" THEN "w_blocked" ELSE "w_ret"]
        /\ wt' = [wt EXCEPT ![t].res = IF r = "block" THEN "none" ELSE r,
                            ![t].until = IF wt[t].delay = Infinite THEN Infinite
                                         ELSE now + wt[t].delay * MsDiv]
        /\ killed' = [killed EXCEPT ![t] = IF r = "io" THEN TRUE ELSE @]
        /\ apc' = [apc EXCEPT ![t] = IF r = "io" THEN FALSE ELSE @]
    /\ UNCHANGED <<stk, aborted, now, ticks, mx_owner, mx_depth, ev, cv_handle, cw>>
    /\ UNCHANGED <<exceptCoreCan, th_rec, killable, ended>>

\* The delay of a blocked wait has run out.
WaitTimeout(t) ==
    /\ pc[t] = "w_blocked"
    /\ wt[t].until # Infinite
    /\ now >= wt[t].until
    /\ pc' = [pc EXCEPT ![t] = "w_ret"]
    /\ wt' = [wt EXCEPT ![t].res = "timeout"]
    /\ UNCHANGED <<stk, aborted, now, ticks, mx_owner, mx_depth, ev, cv_handle, cw>>
    /\ UNCHANGED exceptCore

WaitReturn(t) ==
    /\ pc[t] = "w_ret"
    /\ pc' = [pc EXCEPT ![t] = RetLabel(t)]
    /\ stk' = PopStk(t)
    /\ UNCHANGED <<aborted, now, ticks, mx_owner, mx_depth, ev, cv_handle, cw, wt>>
    /\ UNCHANGED exceptCore

\* ------------------------------------------------------ the wake event
\* SetEvent on a manual-reset event: the event stays set and every thread
\* blocked on it at this moment is released.
OnEvent(u, c) == pc[u] = "w_blocked" /\ wt[u].kind = "event" /\ wt[u].obj = c

SetEventPc(c, base) == [u \in Threads |-> IF OnEvent(u, c) THEN "w_ret" ELSE base[u]]
\* In the wait of vlc_cond_wait on c, the mutex released, the wait not yet over.
InCondWait(u, c) ==
    /\ pc[u] \in {"wfmo", "w_blocked"}
    /\ wt[u].kind = "event" /\ wt[u].obj = c

SetEventWt(c) ==
    [u \in Threads |->
        IF OnEvent(u, c) THEN [wt[u] EXCEPT !.res = "object", !.owed = TRUE]
        ELSE IF InCondWait(u, c) THEN [wt[u] EXCEPT !.owed = TRUE]
        ELSE wt[u]]

\* vlc_cond_broadcast (vlc_cond_signal is the same), then the caller is at base[t].
vlc_cond_broadcast(c, base) ==
    IF cv_handle[c]
    THEN /\ ev' = [ev EXCEPT ![c] = TRUE]
         /\ pc' = SetEventPc(c, base)
         /\ wt' = SetEventWt(c)
    ELSE /\ pc' = base
         /\ UNCHANGED <<ev, wt>>

vlc_cond_signal(c, base) == vlc_cond_broadcast(c, base)

\* ------------------------------------------------------------ cancellation
\* A test that does not look at killable.
TestCancelHitKilled(t) == th_rec[t] /\ killed[t]

\* The test of vlc_testcancel: a thread record, killable and killed.
TestCancelHit(t) == th_rec[t] /\ killable[t] /\ killed[t]

\* ---------------------------------------------------------------- clocks
CLOCK_REALTIME == 0
CLOCK_MONOTONIC == 1
CvClock(c) == IF c \in {"scv", "dcv"} THEN CLOCK_REALTIME ELSE CLOCK_MONOTONIC

\* C's integer division, which truncates toward zero.
CDiv(a, b) == IF a >= 0 THEN a \div b ELSE -((-a) \div b)

mdate == now
\* time(NULL), in seconds
time == now \div CLOCK_FREQ

ClockRead(c) == IF CvClock(c) = CLOCK_REALTIME THEN CLOCK_FREQ * time ELSE mdate

\* A delay computed without "if (total < 0) total = 0": the negative total,
\* converted to DWORD, is a wait without end.
TimedDelayNoClamp(c, deadline) ==
    LET total == CDiv(deadline - ClockRead(c), MsDiv)
    IN  IF total < 0 THEN Infinite
        ELSE IF total > MaxDelay THEN MaxDelay ELSE total

\* The delay vlc_cond_timedwait computes, in milliseconds.
TimedDelay(c, deadline) ==
    LET total == CDiv(deadline - ClockRead(c), MsDiv)
        pos == IF total < 0 THEN 0 ELSE total
    IN  IF pos > MaxDelay THEN MaxDelay ELSE pos

\* ------------------------------------------------------------ mwait, msleep
\* msleep (delay) is mwait (mdate () + delay).
msleep(t, delay, ret) ==
    /\ mw' = [mw EXCEPT ![t] = mdate + delay]
    /\ Call(t, "mw_enter", ret)

\* The delay of one vlc_Sleep of mwait, in milliseconds.
SleepDelay(remaining) ==
    LET ms == CDiv(remaining, MsDiv)
    IN  IF ms > MaxDelay THEN MaxDelay ELSE ms

\* vlc_testcancel (), on entry and after each vlc_Sleep
MwaitTest(t) ==
    /\ pc[t] \in {"mw_enter", "mw_woke"}
    /\ pc' = [pc EXCEPT ![t] = IF TestCancelHit(t) THEN "tc_hit" ELSE "mw_loop"]
    /\ UNCHANGED <<stk, aborted, now, ticks, mx_owner, mx_depth, ev, cv_handle, cw, wt>>
    /\ UNCHANGED exceptCore

\* while ((delay = (deadline - mdate ())) > 0) { ...; vlc_Sleep (delay);
MwaitLoop(t) ==
    /\ pc[t] = "mw_loop"
    /\ IF mw[t] - mdate > 0
       THEN /\ wt' = [wt EXCEPT ![t] = [NoWait EXCEPT !.kind = "sleep",
                                                      !.delay = SleepDelay(mw[t] - mdate)]]
            /\ Call(t, "wfmo", "mw_woke")
            /\ UNCHANGED mw
       ELSE /\ pc' = [pc EXCEPT ![t] = RetLabel(t)]
            /\ stk' = PopStk(t)
            /\ wt' = [wt EXCEPT ![t] = NoWait]
            /\ mw' = [mw EXCEPT ![t] = 0]
    /\ UNCHANGED <<aborted, now, ticks, mx_owner, mx_depth, ev, cv_handle, cw>>
    /\ UNCHANGED exceptCoreMw

\* ----------------------------------- vlc_cond_wait, vlc_cond_timedwait
\* The caller fills cw[t] (condvar, mutex, timed, deadline) and calls "cw_enter".
CondEnter(t) ==
    /\ pc[t] = "cw_enter"
    /\ IF cv_handle[cw[t].cv]
       THEN /\ pc' = [pc EXCEPT ![t] = "cw_top"]
            /\ UNCHANGED <<stk, mw>>
       ELSE \* msleep (50000); return (0);
            /\ msleep(t, SleepStatic, "cw_static")
    /\ UNCHANGED <<aborted, now, ticks, mx_owner, mx_depth, ev, cv_handle, cw, wt>>
    /\ UNCHANGED exceptCoreMw

CondStaticReturn(t) ==
    /\ pc[t] = "cw_static"
    /\ pc' = [pc EXCEPT ![t] = RetLabel(t)]
    /\ stk' = PopStk(t)
    /\ cw' = [cw EXCEPT ![t] = [NoCw EXCEPT !.rv = IF cw[t].timed THEN "0" ELSE "none"]]
    /\ UNCHANGED <<aborted, now, ticks, mx_owner, mx_depth, ev, cv_handle, wt>>
    /\ UNCHANGED exceptCore

\* do { vlc_testcancel (); [delay]; vlc_mutex_unlock (p_mutex); result = wait
CondTop(t) ==
    /\ pc[t] = "cw_top"
    /\ IF TestCancelHit(t)
       THEN /\ pc' = [pc EXCEPT ![t] = "tc_hit"]
            /\ UNCHANGED <<stk, mx_owner, mx_depth, wt>>
       ELSE /\ Leave(t, cw[t].mx)
            /\ wt' = [wt EXCEPT ![t] =
                   [kind |-> "event", obj |-> cw[t].cv,
                    delay |-> IF cw[t].timed THEN TimedDelay(cw[t].cv, cw[t].deadline)
                              ELSE Infinite,
                    until |-> Infinite, res |-> "none", owed |-> wt[t].owed]]
            /\ Call(t, "wfmo", "cw_relock")
    /\ UNCHANGED <<aborted, now, ticks, ev, cv_handle, cw>>
    /\ UNCHANGED exceptCore

\* A loop that ends after any wake-up.
CondRetryNever(t) == FALSE

\* while (result == WAIT_IO_COMPLETION);
CondRetry(t) == wt[t].res = "io"

\* vlc_mutex_lock (p_mutex); } while (result == WAIT_IO_COMPLETION);
CondRelock(t) ==
    /\ pc[t] = "cw_relock"
    /\ Enter(t, cw[t].mx)
    /\ pc' = [pc EXCEPT ![t] = IF CondRetry(t) THEN "cw_top" ELSE "cw_reset"]
    /\ UNCHANGED <<stk, aborted, now, ticks, ev, cv_handle, cw, wt>>
    /\ UNCHANGED exceptCore

\* return (result == WAIT_OBJECT_0) ? 0 : ETIMEDOUT; (vlc_cond_wait returns nothing)
CondResult(t) ==
    IF ~cw[t].timed THEN "none"
    ELSE IF wt[t].res = "object" THEN "0" ELSE "ETIMEDOUT"

\* ResetEvent (p_condvar->handle); return
CondReset(t) ==
    /\ pc[t] = "cw_reset"
    /\ ev' = [ev EXCEPT ![cw[t].cv] = FALSE]
    /\ cw' = [cw EXCEPT ![t] = [NoCw EXCEPT !.rv = CondResult(t)]]
    /\ wt' = [wt EXCEPT ![t] = NoWait]
    /\ pc' = [pc EXCEPT ![t] = RetLabel(t)]
    /\ stk' = PopStk(t)
    /\ UNCHANGED <<aborted, now, ticks, mx_owner, mx_depth, cv_handle>>
    /\ UNCHANGED exceptCore

\* ------------------------------------------------------ read/write lock
\* The one vlc_rwlock_t of the model: mutex "rw", condition variable "rw".
RwHolds(t) == rheld[t] > 0 \/ wheld[t]

InWrLock(u) == \E i \in 1..Len(stk[u]) : stk[u][i] = "wr_loop"

\* A read lock that gives way to waiting writers.
RdMustWaitWriterFirst == writer # NoThread \/ \E u \in Threads : InWrLock(u)

\* while (lock->writer != 0)
RdMustWait == writer # NoThread

\* A write lock that looks at the writer only.
WrMustWaitNoReaders == writer # NoThread

\* while ((lock->readers > 0) || (lock->writer != 0))
WrMustWait == readers > 0 \/ writer # NoThread

vlc_rwlock_rdlock(t) ==
    /\ pc[t] = "idle"
    /\ pc' = [pc EXCEPT ![t] = "rd_lock"]
    /\ UNCHANGED <<stk, aborted, now, ticks, mx_owner, mx_depth, ev, cv_handle, cw, wt>>
    /\ UNCHANGED exceptCore

RdLockEnter(t) ==
    /\ pc[t] = "rd_lock"
    /\ Enter(t, "rw")
    /\ pc' = [pc EXCEPT ![t] = "rd_loop"]
    /\ UNCHANGED <<stk, aborted, now, ticks, ev, cv_handle, cw, wt>>
    /\ UNCHANGED exceptCore

RdLockLoop(t) ==
    /\ pc[t] = "rd_loop"
    /\ IF RdMustWait
       THEN IF readers # 0
            THEN \* assert (lock->readers == 0);
                 /\ Abort
                 /\ UNCHANGED <<stk, cw, mx_owner, mx_depth, readers, rheld>>
            ELSE /\ cw' = [cw EXCEPT ![t] = [NoCw EXCEPT !.cv = "rw", !.mx = "rw"]]
                 /\ Call(t, "cw_enter", "rd_loop")
                 /\ UNCHANGED <<aborted, mx_owner, mx_depth, readers, rheld>>
       ELSE IF readers = ReadersLimit
            THEN /\ Abort
                 /\ UNCHANGED <<stk, cw, mx_owner, mx_depth, readers, rheld>>
            ELSE /\ readers' = readers + 1
                 /\ rheld' = [rheld EXCEPT ![t] = @ + 1]
                 /\ Leave(t, "rw")
                 /\ pc' = [pc EXCEPT ![t] = "idle"]
                 /\ UNCHANGED <<stk, cw, aborted>>
    /\ UNCHANGED <<now, ticks, ev, cv_handle, wt>>
    /\ UNCHANGED <<writer, wheld, rw_bad>>
    /\ UNCHANGED exceptRw

vlc_rwlock_wrlock(t) ==
    /\ pc[t] = "idle"
    /\ pc' = [pc EXCEPT ![t] = "wr_lock"]
    /\ UNCHANGED <<stk, aborted, now, ticks, mx_owner, mx_depth, ev, cv_handle, cw, wt>>
    /\ UNCHANGED exceptCore

WrLockEnter(t) ==
    /\ pc[t] = "wr_lock"
    /\ Enter(t, "rw")
    /\ pc' = [pc EXCEPT ![t] = "wr_loop"]
    /\ UNCHANGED <<stk, aborted, now, ticks, ev, cv_handle, cw, wt>>
    /\ UNCHANGED exceptCore

WrLockLoop(t) ==
    /\ pc[t] = "wr_loop"
    /\ IF WrMustWait
       THEN /\ cw' = [cw EXCEPT ![t] = [NoCw EXCEPT !.cv = "rw", !.mx = "rw"]]
            /\ Call(t, "cw_enter", "wr_loop")
            /\ UNCHANGED <<aborted, mx_owner, mx_depth, writer, wheld>>
       ELSE IF writer # NoThread
            THEN \* assert (lock->writer == 0);
                 /\ Abort
                 /\ UNCHANGED <<stk, cw, mx_owner, mx_depth, writer, wheld>>
            ELSE \* lock->writer = GetCurrentThreadId ();
                 /\ writer' = t
                 /\ wheld' = [wheld EXCEPT ![t] = TRUE]
                 /\ Leave(t, "rw")
                 /\ pc' = [pc EXCEPT ![t] = "idle"]
                 /\ UNCHANGED <<stk, cw, aborted>>
    /\ UNCHANGED <<now, ticks, ev, cv_handle, wt>>
    /\ UNCHANGED <<readers, rheld, rw_bad>>
    /\ UNCHANGED exceptRw

\* vlc_rwlock_unlock reads lock->writer without the mutex and picks the
\* write or the read unlock.
vlc_rwlock_unlock(t) ==
    /\ pc[t] = "idle"
    /\ pc' = [pc EXCEPT ![t] = IF writer # NoThread THEN "wru_lock" ELSE "rdu_lock"]
    /\ rw_bad' = [rw_bad EXCEPT ![t] = ~RwHolds(t)]
    /\ UNCHANGED <<stk, aborted, now, ticks, mx_owner, mx_depth, ev, cv_handle, cw, wt>>
    /\ UNCHANGED <<readers, writer, rheld, wheld>>
    /\ UNCHANGED exceptRw

RdUnlockEnter(t) ==
    /\ pc[t] = "rdu_lock"
    /\ Enter(t, "rw")
    /\ pc' = [pc EXCEPT ![t] = "rdu_body"]
    /\ UNCHANGED <<stk, aborted, now, ticks, ev, cv_handle, cw, wt>>
    /\ UNCHANGED exceptCore

\* assert (lock->readers > 0);
RdUnlockAssert == readers > 0

vlc_rwlock_rdunlock(t) ==
    /\ pc[t] = "rdu_body"
    /\ IF ~RdUnlockAssert
       THEN /\ Abort
            /\ UNCHANGED <<mx_owner, mx_depth, ev, wt, readers, rheld, rw_bad>>
       ELSE /\ readers' = readers - 1
            /\ rheld' = [rheld EXCEPT ![t] = IF rw_bad[t] THEN @ ELSE @ - 1]
            /\ rw_bad' = [rw_bad EXCEPT ![t] = FALSE]
            /\ IF readers - 1 = 0
               THEN vlc_cond_signal("rw", [pc EXCEPT ![t] = "idle"])
               ELSE /\ pc' = [pc EXCEPT ![t] = "idle"]
                    /\ UNCHANGED <<ev, wt>>
            /\ Leave(t, "rw")
            /\ UNCHANGED aborted
    /\ UNCHANGED <<stk, now, ticks, cv_handle, cw>>
    /\ UNCHANGED <<writer, wheld>>
    /\ UNCHANGED exceptRw

WrUnlockEnter(t) ==
    /\ pc[t] = "wru_lock"
    /\ Enter(t, "rw")
    /\ pc' = [pc EXCEPT ![t] = "wru_body"]
    /\ UNCHANGED <<stk, aborted, now, ticks, ev, cv_handle, cw, wt>>
    /\ UNCHANGED exceptCore

\* assert (lock->writer == GetCurrentThreadId ()); assert (lock->readers == 0);
WrUnlockAssert(t) == writer = t /\ readers = 0

vlc_rwlock_wrunlock(t) ==
    /\ pc[t] = "wru_body"
    /\ IF ~WrUnlockAssert(t)
       THEN /\ Abort
            /\ UNCHANGED <<mx_owner, mx_depth, ev, wt, writer, wheld, rw_bad>>
       ELSE /\ writer' = NoThread
            /\ wheld' = [wheld EXCEPT ![t] = IF rw_bad[t] THEN @ ELSE FALSE]
            /\ rw_bad' = [rw_bad EXCEPT ![t] = FALSE]
            /\ vlc_cond_broadcast("rw", [pc EXCEPT ![t] = "idle"])
            /\ Leave(t, "rw")
            /\ UNCHANGED aborted
    /\ UNCHANGED <<stk, now, ticks, cv_handle, cw>>
    /\ UNCHANGED <<readers, rheld>>
    /\ UNCHANGED exceptRw

\* ------------------------------------------- vlc_savecancel, vlc_restorecancel
\* What vlc_savecancel returns, and what it leaves in killable.
SaveCancelRet(t) == IF th_rec[t] THEN killable[t] ELSE FALSE
\* A vlc_savecancel that leaves cancellation as it is.
SaveCancelKillableKeep(t) == killable

SaveCancelKillable(t) == [killable EXCEPT ![t] = IF th_rec[t] THEN FALSE ELSE @]

\* assert (!th->killable), for a thread that has a record.
RestoreAssert(t) == ~th_rec[t] \/ ~killable[t]

\* A restore without the test of th == NULL.
RestoreKillableNoRecord(t, state) == [killable EXCEPT ![t] = state]

\* A restore that enables cancellation whatever was saved.
RestoreKillableAlways(t, state) == [killable EXCEPT ![t] = IF th_rec[t] THEN TRUE ELSE @]

\* th->killable = state != 0;
RestoreKillable(t, state) == [killable EXCEPT ![t] = IF th_rec[t] THEN state ELSE @]

\* ---------------------------------------------------------- static mutexes
\* Static mutexes (dynamic == false) are arbitrated by super_mutex ("super")
\* and super_variable ("super").
SmHolders(m) == {u \in Threads : m \in sm_held[u]}

\* vlc_mutex_lock on a static mutex: int canc = vlc_savecancel ();
StaticLock(t, m) ==
    /\ pc[t] = "idle"
    /\ ml' = [ml EXCEPT ![t] = [m |-> m, canc |-> SaveCancelRet(t), woke |-> FALSE,
                                rv |-> "none"]]
    /\ killable' = SaveCancelKillable(t)
    /\ pc' = [pc EXCEPT ![t] = "sl_enter"]
    /\ UNCHANGED <<stk, aborted, now, ticks, mx_owner, mx_depth, ev, cv_handle, cw, wt>>
    /\ UNCHANGED <<sm_locked, sm_cont, sm_held, sm_bad>>
    /\ UNCHANGED <<th_rec, killed, apc, ended>>
    /\ UNCHANGED exceptSmCan

\* vlc_mutex_lock (&super_mutex);
StaticLockEnter(t) ==
    /\ pc[t] = "sl_enter"
    /\ Enter(t, "super")
    /\ pc' = [pc EXCEPT ![t] = "sl_loop"]
    /\ UNCHANGED <<stk, aborted, now, ticks, ev, cv_handle, cw, wt>>
    /\ UNCHANGED exceptCore

\* A lock that tests locked once, and takes the mutex after the first wake.
SlMustWaitOnce(t) == sm_locked[ml[t].m] /\ ~ml[t].woke

\* while (p_mutex->locked)
SlMustWait(t) == sm_locked[ml[t].m]

StaticLockLoop(t) ==
    /\ pc[t] = "sl_loop"
    /\ IF SlMustWait(t)
       THEN \* p_mutex->contention++; vlc_cond_wait (&super_variable, &super_mutex);
            /\ sm_cont' = [sm_cont EXCEPT ![ml[t].m] = @ + 1]
            /\ cw' = [cw EXCEPT ![t] = [NoCw EXCEPT !.cv = "super", !.mx = "super"]]
            /\ Call(t, "cw_enter", "sl_woke")
            /\ UNCHANGED <<aborted, mx_owner, mx_depth, sm_locked, sm_held, killable, ml>>
       ELSE \* p_mutex->locked = true; vlc_mutex_unlock (&super_mutex);
            \* vlc_restorecancel (canc);
            IF ~RestoreAssert(t)
            THEN /\ Abort
                 /\ UNCHANGED <<stk, cw, mx_owner, mx_depth, sm_locked, sm_cont, sm_held,
                                killable, ml>>
            ELSE /\ sm_locked' = [sm_locked EXCEPT ![ml[t].m] = TRUE]
                 /\ sm_held' = [sm_held EXCEPT ![t] = @ \cup {ml[t].m}]
                 /\ Leave(t, "super")
                 /\ killable' = RestoreKillable(t, ml[t].canc)
                 /\ ml' = [ml EXCEPT ![t] = NoMl]
                 /\ pc' = [pc EXCEPT ![t] = "idle"]
                 /\ UNCHANGED <<stk, cw, aborted, sm_cont>>
    /\ UNCHANGED <<now, ticks, ev, cv_handle, wt>>
    /\ UNCHANGED sm_bad
    /\ UNCHANGED <<th_rec, killed, apc, ended>>
    /\ UNCHANGED exceptSmCan

\* p_mutex->contention--;
StaticLockWoke(t) ==
    /\ pc[t] = "sl_woke"
    /\ sm_cont' = [sm_cont EXCEPT ![ml[t].m] = @ - 1]
    /\ ml' = [ml EXCEPT ![t].woke = TRUE]
    /\ pc' = [pc EXCEPT ![t] = "sl_loop"]
    /\ UNCHANGED <<stk, aborted, now, ticks, mx_owner, mx_depth, ev, cv_handle, cw, wt>>
    /\ UNCHANGED <<sm_locked, sm_held, sm_bad>>
    /\ UNCHANGED canVars
    /\ UNCHANGED exceptSmCan

\* vlc_mutex_trylock on a static mutex
StaticTrylock(t, m) ==
    /\ pc[t] = "idle"
    /\ ml' = [ml EXCEPT ![t] = [m |-> m, canc |-> FALSE, woke |-> FALSE, rv |-> "none"]]
    /\ pc' = [pc EXCEPT ![t] = "st_enter"]
    /\ UNCHANGED <<stk, aborted, now, ticks, mx_owner, mx_depth, ev, cv_handle, cw, wt>>
    /\ UNCHANGED <<sm_locked, sm_cont, sm_held, sm_bad>>
    /\ UNCHANGED canVars
    /\ UNCHANGED exceptSmCan

StaticTrylockEnter(t) ==
    /\ pc[t] = "st_enter"
    /\ Enter(t, "super")
    /\ pc' = [pc EXCEPT ![t] = "st_body"]
    /\ UNCHANGED <<stk, aborted, now, ticks, ev, cv_handle, cw, wt>>
    /\ UNCHANGED exceptCore

\* A trylock that takes the mutex whatever its state.
TryCanTakeAlways(t) == TRUE

\* if (!p_mutex->locked)
TryCanTake(t) == ~sm_locked[ml[t].m]

StaticTrylockBody(t) ==
    /\ pc[t] = "st_body"
    /\ IF TryCanTake(t)
       THEN /\ sm_locked' = [sm_locked EXCEPT ![ml[t].m] = TRUE]
            /\ sm_held' = [sm_held EXCEPT ![t] = @ \cup {ml[t].m}]
            /\ ml' = [ml EXCEPT ![t] = [NoMl EXCEPT !.rv = "0"]]
       ELSE /\ ml' = [ml EXCEPT ![t] = [NoMl EXCEPT !.rv = "EBUSY"]]
            /\ UNCHANGED <<sm_locked, sm_held>>
    /\ Leave(t, "super")
    /\ pc' = [pc EXCEPT ![t] = "idle"]
    /\ UNCHANGED <<stk, aborted, now, ticks, ev, cv_handle, cw, wt>>
    /\ UNCHANGED <<sm_cont, sm_bad>>
    /\ UNCHANGED canVars
    /\ UNCHANGED exceptSmCan

\* vlc_mutex_unlock on a static mutex
StaticUnlock(t, m) ==
    /\ pc[t] = "idle"
    /\ ml' = [ml EXCEPT ![t] = [m |-> m, canc |-> FALSE, woke |-> FALSE, rv |-> "none"]]
    /\ sm_bad' = [sm_bad EXCEPT ![t] = m \notin sm_held[t]]
    /\ pc' = [pc EXCEPT ![t] = "su_enter"]
    /\ UNCHANGED <<stk, aborted, now, ticks, mx_owner, mx_depth, ev, cv_handle, cw, wt>>
    /\ UNCHANGED <<sm_locked, sm_cont, sm_held>>
    /\ UNCHANGED canVars
    /\ UNCHANGED exceptSmCan

StaticUnlockEnter(t) ==
    /\ pc[t] = "su_enter"
    /\ Enter(t, "super")
    /\ pc' = [pc EXCEPT ![t] = "su_body"]
    /\ UNCHANGED <<stk, aborted, now, ticks, ev, cv_handle, cw, wt>>
    /\ UNCHANGED exceptCore

\* An unlock without the assertion.
StaticUnlockNoAssert(t) == TRUE

\* assert (p_mutex->locked);
StaticUnlockAssert(t) == sm_locked[ml[t].m]

StaticUnlockBody(t) ==
    /\ pc[t] = "su_body"
    /\ IF ~StaticUnlockAssert(t)
       THEN /\ Abort
            /\ UNCHANGED <<mx_owner, mx_depth, ev, wt, sm_locked, sm_held, sm_bad, ml>>
       ELSE /\ sm_locked' = [sm_locked EXCEPT ![ml[t].m] = FALSE]
            /\ ml' = [ml EXCEPT ![t] = NoMl]
            /\ sm_held' = [sm_held EXCEPT ![t] = IF sm_bad[t] THEN @ ELSE @ \ {ml[t].m}]
            /\ sm_bad' = [sm_bad EXCEPT ![t] = FALSE]
            /\ IF sm_cont[ml[t].m] # 0
               THEN vlc_cond_broadcast("super", [pc EXCEPT ![t] = "idle"])
               ELSE /\ pc' = [pc EXCEPT ![t] = "idle"]
                    /\ UNCHANGED <<ev, wt>>
            /\ Leave(t, "super")
            /\ UNCHANGED aborted
    /\ UNCHANGED <<stk, now, ticks, cv_handle, cw>>
    /\ UNCHANGED sm_cont
    /\ UNCHANGED canVars
    /\ UNCHANGED exceptSmCan

\* ------------------------------------- callers of the condition variables
\* The condition variables user code waits on, with the dynamic mutex "um",
\* and the deadlines it passes to vlc_cond_timedwait.
UserCondVars == {"ucv", "dcv", "scv"}
Deadlines == {0, 900, 1000000}

\* vlc_mutex_lock on a dynamic mutex: EnterCriticalSection
UserLock(t) ==
    /\ pc[t] = "idle"
    /\ mx_owner["um"] # t
    /\ Enter(t, "um")
    /\ UNCHANGED <<pc, stk, aborted, now, ticks, ev, cv_handle, cw, wt>>
    /\ UNCHANGED exceptCore

\* vlc_mutex_unlock on a dynamic mutex: LeaveCriticalSection
UserUnlock(t) ==
    /\ pc[t] = "idle"
    /\ mx_owner["um"] = t
    /\ Leave(t, "um")
    /\ UNCHANGED <<pc, stk, aborted, now, ticks, ev, cv_handle, cw, wt>>
    /\ UNCHANGED exceptCore

\* vlc_cond_wait (c, &um), called with the mutex held
UserWait(t, c) ==
    /\ pc[t] = "idle"
    /\ mx_owner["um"] = t
    /\ cw' = [cw EXCEPT ![t] = [NoCw EXCEPT !.cv = c, !.mx = "um"]]
    /\ Call(t, "cw_enter", "idle")
    /\ UNCHANGED <<aborted, now, ticks, mx_owner, mx_depth, ev, cv_handle, wt>>
    /\ UNCHANGED exceptCore

\* vlc_cond_timedwait (c, &um, deadline), called with the mutex held
UserTimedWait(t, c, deadline) ==
    /\ pc[t] = "idle"
    /\ mx_owner["um"] = t
    /\ cw' = [cw EXCEPT ![t] = [NoCw EXCEPT !.cv = c, !.mx = "um", !.timed = TRUE,
                                            !.deadline = deadline,
                                            !.past = (deadline <= ClockRead(c))]]
    /\ Call(t, "cw_enter", "idle")
    /\ UNCHANGED <<aborted, now, ticks, mx_owner, mx_depth, ev, cv_handle, wt>>
    /\ UNCHANGED exceptCore

\* vlc_cond_broadcast (c), called with the mutex held
UserBroadcast(t, c) ==
    /\ pc[t] = "idle"
    /\ mx_owner["um"] = t
    /\ vlc_cond_broadcast(c, pc)
    /\ UNCHANGED <<stk, aborted, now, ticks, mx_owner, mx_depth, cv_handle, cw>>
    /\ UNCHANGED exceptCore

\* vlc_cond_signal (c), called with the mutex held
UserSignal(t, c) ==
    /\ pc[t] = "idle"
    /\ mx_owner["um"] = t
    /\ vlc_cond_signal(c, pc)
    /\ UNCHANGED <<stk, aborted, now, ticks, mx_owner, mx_depth, cv_handle, cw>>
    /\ UNCHANGED exceptCore

\* msleep (delay)
UserSleep(t, delay) ==
    /\ pc[t] = "idle"
    /\ msleep(t, delay, "idle")
    /\ UNCHANGED <<sysVars, wt>>
    /\ UNCHANGED exceptCoreMw

\* ------------------------------------------ thread-specific variables (TLS)
\* vlc_threadvar_get (key); the value of thread_key is the thread's record.
TlsGet(t, k) == IF k = thread_key THEN (IF th_rec[t] THEN 1 ELSE 0) ELSE tls[t][k]

\* Some thread is in vlc_threadvar_create or vlc_threadvar_delete of key k.
KeyBusy(k) == \E u \in Threads : tv[u].key = k

\* vlc_threadvar_create (&k, destr), k's slot fresh from TlsAlloc; the key is
\* there for the threads once it is linked.
vlc_threadvar_create(t, k, destr) ==
    /\ pc[t] = "idle"
    /\ ~tvar[k].live /\ ~KeyBusy(k)
    /\ tv' = [tv EXCEPT ![t] = [key |-> k, destr |-> destr]]
    /\ pc' = [pc EXCEPT ![t] = "tvc_lock"]
    /\ UNCHANGED <<stk, sysVars, wt>>
    /\ UNCHANGED <<resets, korder>>
    /\ UNCHANGED <<canVars, thVars, tlsVars, lockVars, mwVars, tmVars, recVars>>

\* vlc_mutex_lock (&super_mutex);
ThreadvarCreateLock(t) ==
    /\ pc[t] = "tvc_lock"
    /\ Enter(t, "super")
    /\ pc' = [pc EXCEPT ![t] = "tvc_link"]
    /\ UNCHANGED <<stk, aborted, now, ticks, ev, cv_handle, cw, wt>>
    /\ UNCHANGED exceptCore

\* var->prev = vlc_threadvar_last; if (var->prev) var->prev->next = var;
\* vlc_threadvar_last = var; vlc_mutex_unlock (&super_mutex); return 0;
ThreadvarCreateLink(t) ==
    /\ pc[t] = "tvc_link"
    /\ LET k == tv[t].key
       IN  /\ tvar' = [j \in DOMAIN tvar |->
                  IF j = k THEN [live |-> TRUE, destroy |-> tv[t].destr,
                                 prev |-> vlc_threadvar_last, next |-> NoKey]
                  ELSE IF j = vlc_threadvar_last THEN [tvar[j] EXCEPT !.next = k]
                  ELSE tvar[j]]
           /\ vlc_threadvar_last' = k
    /\ korder' = Append(korder, tv[t].key)
    /\ Leave(t, "super")
    /\ tv' = [tv EXCEPT ![t] = NoTv]
    /\ pc' = [pc EXCEPT ![t] = "idle"]
    /\ UNCHANGED <<stk, aborted, now, ticks, ev, cv_handle, cw, wt>>
    /\ UNCHANGED <<tls, tkey, dlog, snap, resets>>
    /\ UNCHANGED <<canVars, thVars, lockVars, mwVars, tmVars, recVars>>

\* vlc_threadvar_delete (&k)
vlc_threadvar_delete(t, k) ==
    /\ pc[t] = "idle"
    /\ tvar[k].live /\ ~KeyBusy(k)
    /\ tv' = [tv EXCEPT ![t] = [key |-> k, destr |-> FALSE]]
    /\ pc' = [pc EXCEPT ![t] = "tvd_lock"]
    /\ UNCHANGED <<stk, sysVars, wt>>
    /\ UNCHANGED <<resets, korder>>
    /\ UNCHANGED <<canVars, thVars, tlsVars, lockVars, mwVars, tmVars, recVars>>

\* vlc_mutex_lock (&super_mutex);
ThreadvarDeleteLock(t) ==
    /\ pc[t] = "tvd_lock"
    /\ Enter(t, "super")
    /\ pc' = [pc EXCEPT ![t] = "tvd_unlink"]
    /\ UNCHANGED <<stk, aborted, now, ticks, ev, cv_handle, cw, wt>>
    /\ UNCHANGED exceptCore

\* An unlink that leaves vlc_threadvar_last alone.
UnlinkLastKeep(k) == vlc_threadvar_last

\* if (var->next != NULL) ...; else vlc_threadvar_last = var->prev;
UnlinkLast(k) == IF tvar[k].next # NoKey THEN vlc_threadvar_last ELSE tvar[k].prev

\* if (var->prev != NULL) var->prev->next = var->next; if (var->next != NULL)
\* var->next->prev = var->prev; else vlc_threadvar_last = var->prev;
\* vlc_mutex_unlock (&super_mutex);
ThreadvarDeleteUnlink(t) ==
    /\ pc[t] = "tvd_unlink"
    /\ LET k == tv[t].key
           p == tvar[k].prev
           n == tvar[k].next
       IN  /\ tvar' = [j \in DOMAIN tvar |->
                  IF j = p /\ j = n THEN tvar[j]
                  ELSE IF j = p THEN [tvar[j] EXCEPT !.next = n]
                  ELSE IF j = n THEN [tvar[j] EXCEPT !.prev = p]
                  ELSE tvar[j]]
           /\ vlc_threadvar_last' = UnlinkLast(k)
           /\ korder' = SelectSeq(korder, LAMBDA x : x # k)
    /\ Leave(t, "super")
    /\ pc' = [pc EXCEPT ![t] = "tvd_free"]
    /\ UNCHANGED <<stk, aborted, now, ticks, ev, cv_handle, cw, wt>>
    /\ UNCHANGED <<tls, tkey, dlog, snap, tv, resets>>
    /\ UNCHANGED <<canVars, thVars, lockVars, mwVars, tmVars, recVars>>

\* TlsFree (var->id); free (var);
ThreadvarDeleteFree(t) ==
    /\ pc[t] = "tvd_free"
    /\ tvar' = [tvar EXCEPT ![tv[t].key] = NoTvar]
    /\ tls' = [u \in Threads |-> [k \in DOMAIN tls[u] |->
                                    IF k = tv[t].key THEN 0 ELSE tls[u][k]]]
    /\ tv' = [tv EXCEPT ![t] = NoTv]
    /\ pc' = [pc EXCEPT ![t] = "idle"]
    /\ UNCHANGED <<stk, sysVars, wt>>
    /\ UNCHANGED <<vlc_threadvar_last, tkey, dlog, snap, resets, korder>>
    /\ UNCHANGED <<canVars, thVars, lockVars, mwVars, tmVars, recVars>>

\* vlc_threadvar_set (k, value)
vlc_threadvar_set(t, k, value) ==
    /\ pc[t] = "idle"
    /\ tvar[k].live
    /\ tls' = [tls EXCEPT ![t][k] = value]
    /\ UNCHANGED <<tvar, vlc_threadvar_last, tkey, dlog, snap>>
    /\ UNCHANGED <<coreVars, canVars, thVars, exceptThread>>

\* A scan that walks the list by next instead of prev.
RECURSIVE ScanFromNext(_, _)
ScanFromNext(t, k) ==
    IF k = NoKey THEN NoKey
    ELSE IF TlsGet(t, k) # 0 /\ tvar[k].destroy THEN k
    ELSE ScanFromNext(t, tvar[k].next)

\* for (key = vlc_threadvar_last; key != NULL; key = key->prev): the first key
\* with a value and a destructor, NoKey when the loop runs to its end.
RECURSIVE ScanFrom(_, _)
ScanFrom(t, k) ==
    IF k = NoKey THEN NoKey
    ELSE IF TlsGet(t, k) # 0 /\ tvar[k].destroy THEN k
    ELSE ScanFrom(t, tvar[k].prev)

\* retry: vlc_mutex_lock (&super_mutex);
ThreadCleanupLock(t) ==
    /\ pc[t] = "tcl_lock"
    /\ Enter(t, "super")
    /\ pc' = [pc EXCEPT ![t] = "tcl_scan"]
    /\ UNCHANGED <<stk, aborted, now, ticks, ev, cv_handle, cw, wt>>
    /\ UNCHANGED exceptCore

\* A cleanup that frees the record of every thread.
CleanupFreesAlways(t) == TRUE

\* if (th->detached)
CleanupFrees(t) == detached[t]

\* A loop that goes on from key->prev after a destructor.
ScanStartPrev(t) ==
    IF dlog[t] = <<>> THEN vlc_threadvar_last
    ELSE tvar[dlog[t][Len(dlog[t])].key].prev

\* goto retry; for (key = vlc_threadvar_last; ...
ScanStart(t) == vlc_threadvar_last

\* A cleanup that keeps super_mutex when it leaves the loop.
CleanupUnlockNone(t) == UNCHANGED <<mx_owner, mx_depth>>

\* vlc_mutex_unlock (&super_mutex); before the destructor, and after the loop
CleanupUnlock(t) == Leave(t, "super")

\* The loop over the keys, and vlc_mutex_unlock (&super_mutex) on either way
\* out of it; after the loop, if (th->detached) { CloseHandle (th->id);
\* free (th); }
ThreadCleanupScan(t) ==
    /\ pc[t] = "tcl_scan"
    /\ CleanupUnlock(t)
    /\ LET k == ScanFrom(t, ScanStart(t))
       IN  IF k = NoKey
           THEN /\ pc' = [pc EXCEPT ![t] = RetLabel(t)]
                /\ stk' = PopStk(t)
                /\ IF CleanupFrees(t)
                   THEN /\ th_alloc' = [th_alloc EXCEPT ![t] = FALSE]
                        /\ th_free' = [th_free EXCEPT ![t] = Append(@, "self")]
                   ELSE UNCHANGED <<th_alloc, th_free>>
                /\ UNCHANGED tkey
           ELSE /\ tkey' = [tkey EXCEPT ![t] = [key |-> k, value |-> TlsGet(t, k)]]
                /\ pc' = [pc EXCEPT ![t] = "tcl_set"]
                /\ UNCHANGED <<stk, th_alloc, th_free>>
    /\ UNCHANGED <<aborted, now, ticks, ev, cv_handle, cw, wt>>
    /\ UNCHANGED <<tvar, vlc_threadvar_last, tls, dlog, snap>>
    /\ UNCHANGED <<th_data, cleaners, pushed, hlog, tcp, hit, jn, reg, sp>>
    /\ UNCHANGED <<canVars, lockVars, mwVars, tmVars, detached, keyVars>>

\* The record that key points to in vlc_thread_cleanup has been freed by
\* vlc_threadvar_delete.
KeyFreed(t) == ~tvar[tkey[t].key].live

\* vlc_threadvar_set (key, NULL); key->id read from a freed record is
\* anything: the call crashes, or fails, or clears some slot.
ThreadCleanupSet(t) ==
    /\ pc[t] = "tcl_set"
    /\ IF ~KeyFreed(t)
       THEN /\ tls' = [tls EXCEPT ![t][tkey[t].key] = 0]
            /\ pc' = [pc EXCEPT ![t] = "tcl_destroy"]
            /\ UNCHANGED aborted
       ELSE \/ (Abort /\ UNCHANGED tls)
            \/ /\ \E k \in Keys : tls' = [tls EXCEPT ![t][k] = 0]
               /\ pc' = [pc EXCEPT ![t] = "tcl_destroy"]
               /\ UNCHANGED aborted
    /\ UNCHANGED <<stk, now, ticks, mx_owner, mx_depth, ev, cv_handle, cw, wt>>
    /\ UNCHANGED <<tvar, vlc_threadvar_last, tkey, dlog, snap>>
    /\ UNCHANGED <<canVars, thVars, exceptThread>>

\* key->destroy (value); goto retry; key->destroy read from a freed record is
\* anything: the call crashes, or some function runs.
ThreadCleanupDestroy(t) ==
    /\ pc[t] = "tcl_destroy"
    /\ \/ /\ dlog' = [dlog EXCEPT ![t] =
                   Append(@, [key |-> tkey[t].key, value |-> tkey[t].value,
                              cur |-> TlsGet(t, tkey[t].key)])]
          /\ tkey' = [tkey EXCEPT ![t] = NoTkey]
          /\ pc' = [pc EXCEPT ![t] = "tcl_lock"]
          /\ UNCHANGED aborted
       \/ (KeyFreed(t) /\ Abort /\ UNCHANGED <<dlog, tkey>>)
    /\ UNCHANGED <<stk, now, ticks, mx_owner, mx_depth, ev, cv_handle, cw, wt>>
    /\ UNCHANGED <<tvar, vlc_threadvar_last, tls, snap>>
    /\ UNCHANGED <<canVars, thVars, exceptThread>>

\* vlc_threadvar_set (k, value) called by the destructor that runs in t.
DestructorSet(t, k, value) ==
    /\ pc[t] = "tcl_destroy"
    /\ tvar[k].live
    /\ resets < MaxResets
    /\ tls' = [tls EXCEPT ![t][k] = value]
    /\ resets' = resets + 1
    /\ UNCHANGED <<tvar, vlc_threadvar_last, tkey, dlog, snap, tv, korder>>
    /\ UNCHANGED <<coreVars, canVars, thVars, lockVars, mwVars, tmVars, recVars>>

\* ------------------------------------------------------------------ threads
\* vlc_clone_attr (&w, det, entry, data, priority): the record, then the
\* thread itself, which starts in vlc_entry.
vlc_clone_attr(t, w, det) ==
    /\ pc[t] = "idle" /\ pc[w] = "idle"
    /\ t # w
    /\ ~th_alloc[w] /\ ~th_rec[w]
    /\ th_alloc' = [th_alloc EXCEPT ![w] = TRUE]
    /\ th_data' = [th_data EXCEPT ![w] = "data"]
    /\ detached' = [detached EXCEPT ![w] = det]
    /\ th_free' = [th_free EXCEPT ![w] = <<>>]
    /\ killable' = [killable EXCEPT ![w] = FALSE]
    /\ killed' = [killed EXCEPT ![w] = FALSE]
    /\ cleaners' = [cleaners EXCEPT ![w] = <<>>]
    /\ pc' = [pc EXCEPT ![w] = "entry"]
    /\ UNCHANGED <<stk, sysVars, wt>>
    /\ UNCHANGED <<th_rec, apc, ended>>
    /\ UNCHANGED <<pushed, hlog, tcp, hit, jn, reg, sp>>
    /\ UNCHANGED <<tlsVars, lockVars, mwVars, tmVars, keyVars>>

\* vlc_clone (&w, entry, data, priority)
vlc_clone(t, w) == vlc_clone_attr(t, w, FALSE)

\* vlc_clone_detach (&w, entry, data, priority)
vlc_clone_detach(t, w) == vlc_clone_attr(t, w, TRUE)

\* vlc_threadvar_set (thread_key, th); th->killable = true; then th->entry runs
vlc_entry(t) ==
    /\ pc[t] = "entry"
    /\ th_rec' = [th_rec EXCEPT ![t] = TRUE]
    /\ killable' = [killable EXCEPT ![t] = TRUE]
    /\ pc' = [pc EXCEPT ![t] = "idle"]
    /\ UNCHANGED <<stk, sysVars, wt>>
    /\ UNCHANGED <<killed, apc, ended>>
    /\ UNCHANGED <<thVars, tlsVars, exceptThread>>

\* th->entry returns: th->data = th->entry (th->data); vlc_thread_cleanup (th);
EntryReturn(t) ==
    /\ pc[t] = "idle"
    /\ th_rec[t]
    /\ th_data' = [th_data EXCEPT ![t] = "result"]
    /\ snap' = [snap EXCEPT ![t] = tls[t]]
    /\ Call(t, "tcl_lock", "th_end")
    /\ UNCHANGED <<sysVars, wt>>
    /\ UNCHANGED <<th_alloc, cleaners, pushed, hlog, tcp, hit, jn, reg, sp>>
    /\ UNCHANGED <<tvar, vlc_threadvar_last, tls, tkey, dlog>>
    /\ UNCHANGED <<canVars, exceptThread>>

\* In vlc_join on thread w, blocked on its handle.
Joining(u, w) == pc[u] = "w_blocked" /\ wt[u].kind = "thread" /\ wt[u].obj = w

\* return 0; from vlc_entry, or _endthreadex (0): the thread is over and its
\* handle is signalled.
ThreadEnd(t) ==
    /\ pc[t] = "th_end"
    /\ pc' = [u \in Threads |-> IF u = t THEN "ended"
                                ELSE IF Joining(u, t) THEN "w_ret" ELSE pc[u]]
    /\ wt' = [u \in Threads |-> IF Joining(u, t) THEN [wt[u] EXCEPT !.res = "object"]
                                ELSE wt[u]]
    /\ stk' = [stk EXCEPT ![t] = <<>>]
    /\ ended' = [ended EXCEPT ![t] = TRUE]
    /\ UNCHANGED sysVars
    /\ UNCHANGED <<th_rec, killable, killed, apc>>
    /\ UNCHANGED <<thVars, tlsVars, exceptThread>>

\* vlc_join (w, NULL)
vlc_join(t, w) ==
    /\ pc[t] = "idle"
    /\ t # w
    /\ th_alloc[w]
    /\ jn' = [jn EXCEPT ![t] = w]
    /\ Call(t, "jn_top", "idle")
    /\ UNCHANGED <<sysVars, wt>>
    /\ UNCHANGED <<th_alloc, th_data, cleaners, pushed, hlog, tcp, hit, reg, sp>>
    /\ UNCHANGED <<canVars, tlsVars, exceptThread>>

\* do vlc_testcancel (); while (vlc_WaitForSingleObject (th->id, INFINITE) ...
JoinTop(t) ==
    /\ pc[t] = "jn_top"
    /\ IF TestCancelHit(t)
       THEN /\ pc' = [pc EXCEPT ![t] = "tc_hit"]
            /\ UNCHANGED <<stk, wt>>
       ELSE /\ wt' = [wt EXCEPT ![t] = [NoWait EXCEPT !.kind = "thread", !.obj = jn[t],
                                                      !.delay = Infinite]]
            /\ Call(t, "wfmo", "jn_woke")
    /\ UNCHANGED sysVars
    /\ UNCHANGED exceptCore

\* ... == WAIT_IO_COMPLETION); CloseHandle (th->id); free (th);
JoinWoke(t) ==
    /\ pc[t] = "jn_woke"
    /\ IF wt[t].res = "io"
       THEN /\ pc' = [pc EXCEPT ![t] = "jn_top"]
            /\ UNCHANGED <<stk, wt, th_alloc, jn, th_free>>
       ELSE /\ th_alloc' = [th_alloc EXCEPT ![jn[t]] = FALSE]
            /\ th_free' = [th_free EXCEPT ![jn[t]] = Append(@, "join")]
            /\ jn' = [jn EXCEPT ![t] = NoThread]
            /\ wt' = [wt EXCEPT ![t] = NoWait]
            /\ pc' = [pc EXCEPT ![t] = RetLabel(t)]
            /\ stk' = PopStk(t)
    /\ UNCHANGED sysVars
    /\ UNCHANGED <<th_data, cleaners, pushed, hlog, tcp, hit, reg, sp>>
    /\ UNCHANGED <<canVars, tlsVars, lockVars, mwVars, tmVars, detached, keyVars>>

\* ------------------------------------------------------------ cancellation
\* Every wait of the file is alertable: a queued APC ends it at once.
Alertable(w) == pc[w] = "w_blocked"

\* vlc_cancel (w): QueueUserAPC (vlc_cancel_self, ...). On a thread in an
\* alertable wait the APC runs now (th->killed = true) and the wait answers
\* WAIT_IO_COMPLETION; on any other it stays queued until the thread waits.
vlc_cancel(t, w) ==
    /\ pc[t] = "idle"
    /\ t # w
    /\ th_alloc[w] /\ ~ended[w]
    /\ IF Alertable(w)
       THEN /\ pc' = [pc EXCEPT ![w] = "w_ret"]
            /\ wt' = [wt EXCEPT ![w].res = "io"]
            /\ killed' = [killed EXCEPT ![w] = TRUE]
            /\ UNCHANGED apc
       ELSE /\ apc' = [apc EXCEPT ![w] = TRUE]
            /\ UNCHANGED <<pc, wt, killed>>
    /\ hit' = [hit EXCEPT ![w] = @ \/ (Alertable(w) /\ th_rec[w] /\ killable[w])]
    /\ UNCHANGED <<stk, sysVars>>
    /\ UNCHANGED <<th_rec, killable, ended>>
    /\ UNCHANGED <<th_alloc, th_data, cleaners, pushed, hlog, tcp, jn, reg, sp>>
    /\ UNCHANGED <<tlsVars, exceptThread>>

\* for (vlc_cleanup_t *p = th->cleaners; ...
TestCancelStart(t) ==
    /\ pc[t] = "tc_hit"
    /\ tcp' = [tcp EXCEPT ![t] = cleaners[t]]
    /\ pc' = [pc EXCEPT ![t] = "tc_loop"]
    /\ UNCHANGED <<stk, sysVars, wt>>
    /\ UNCHANGED <<th_alloc, th_data, cleaners, pushed, hlog, hit, jn, reg, sp>>
    /\ UNCHANGED <<canVars, tlsVars, exceptThread>>

\* ... p != NULL; p = p->next) p->proc (p->data); and after the loop
\* th->data = NULL; vlc_thread_cleanup (th); _endthreadex (0);
TestCancelLoop(t) ==
    /\ pc[t] = "tc_loop"
    /\ IF tcp[t] # <<>>
       THEN /\ hlog' = [hlog EXCEPT ![t] = Append(@, Head(tcp[t]))]
            /\ tcp' = [tcp EXCEPT ![t] = Tail(@)]
            /\ UNCHANGED <<pc, stk, th_data, snap>>
       ELSE /\ th_data' = [th_data EXCEPT ![t] = "NULL"]
            /\ snap' = [snap EXCEPT ![t] = tls[t]]
            /\ Call(t, "tcl_lock", "th_end")
            /\ UNCHANGED <<hlog, tcp>>
    /\ UNCHANGED <<sysVars, wt>>
    /\ UNCHANGED <<th_alloc, cleaners, pushed, hit, jn, reg, sp>>
    /\ UNCHANGED <<tvar, vlc_threadvar_last, tls, tkey, dlog>>
    /\ UNCHANGED <<canVars, exceptThread>>

\* The calls of vlc_testcancel that have gone into a handler or a destructor
\* which has not returned.
NestDepth(t) == Cardinality({i \in 1..Len(stk[t]) : stk[t][i] \in {"tc_loop", "tcl_lock"}})

\* vlc_testcancel (), or msleep (0), called by user code that runs inside the
\* thread's exit: by a cleanup handler or by a destructor.
ExitPoint(t, sleep, ret) ==
    IF sleep THEN msleep(t, 0, ret)
    ELSE Call(t, "tc_test", ret) /\ UNCHANGED mw

\* p->proc (p->data), the handler reaching a cancellation point before it
\* returns.
HandlerPoint(t, sleep) ==
    /\ pc[t] = "tc_loop"
    /\ tcp[t] # <<>>
    /\ NestDepth(t) < MaxNest
    /\ hlog' = [hlog EXCEPT ![t] = Append(@, Head(tcp[t]))]
    /\ tcp' = [tcp EXCEPT ![t] = Tail(@)]
    /\ ExitPoint(t, sleep, "tc_loop")
    /\ UNCHANGED <<sysVars, wt>>
    /\ UNCHANGED <<th_alloc, th_data, cleaners, pushed, hit, jn, reg, sp>>
    /\ UNCHANGED <<canVars, tlsVars, lockVars, tmVars, recVars, keyVars>>

\* key->destroy (value), the destructor reaching a cancellation point before
\* it returns.
DestructorPoint(t, sleep) ==
    /\ pc[t] = "tcl_destroy"
    /\ ~KeyFreed(t)
    /\ NestDepth(t) < MaxNest
    /\ dlog' = [dlog EXCEPT ![t] =
             Append(@, [key |-> tkey[t].key, value |-> tkey[t].value,
                        cur |-> TlsGet(t, tkey[t].key)])]
    /\ tkey' = [tkey EXCEPT ![t] = NoTkey]
    /\ ExitPoint(t, sleep, "tcl_lock")
    /\ UNCHANGED <<sysVars, wt>>
    /\ UNCHANGED <<tvar, vlc_threadvar_last, tls, snap>>
    /\ UNCHANGED <<canVars, thVars, lockVars, tmVars, recVars, keyVars>>

\* A push that links the new cleaner behind the list instead of before it.
PushCleanerTail(list, h) == Append(list, h)

\* cleaner->next = th->cleaners; th->cleaners = cleaner;
PushCleaner(list, h) == <<h>> \o list

\* vlc_cleanup_push (handler h): vlc_control_cancel (VLC_CLEANUP_PUSH, &cleaner)
CleanupPush(t, h) ==
    /\ pc[t] = "idle"
    /\ IF th_rec[t]
       THEN cleaners' = [cleaners EXCEPT ![t] = PushCleaner(@, h)]
       ELSE UNCHANGED cleaners
    /\ pushed' = [pushed EXCEPT ![t] = Append(@, h)]
    /\ UNCHANGED <<th_alloc, th_data, hlog, tcp, hit, jn, reg, sp>>
    /\ UNCHANGED <<coreVars, canVars, tlsVars, exceptThread>>

\* vlc_cleanup_pop (): vlc_control_cancel (VLC_CLEANUP_POP), after a push
CleanupPop(t) ==
    /\ pc[t] = "idle"
    /\ pushed[t] # <<>>
    /\ IF th_rec[t]
       THEN cleaners' = [cleaners EXCEPT ![t] = Tail(@)]
       ELSE UNCHANGED cleaners
    /\ pushed' = [pushed EXCEPT ![t] = SubSeq(@, 1, Len(@) - 1)]
    /\ UNCHANGED <<th_alloc, th_data, hlog, tcp, hit, jn, reg, sp>>
    /\ UNCHANGED <<coreVars, canVars, tlsVars, exceptThread>>

\* state = vlc_savecancel (); that opens a region with cancellation disabled
SaveOpen(t) ==
    /\ pc[t] = "idle"
    /\ ~reg[t].open
    /\ reg' = [reg EXCEPT ![t] = [open |-> TRUE, state |-> SaveCancelRet(t)]]
    /\ killable' = SaveCancelKillable(t)
    /\ UNCHANGED <<th_rec, killed, apc, ended>>
    /\ UNCHANGED <<th_alloc, th_data, cleaners, pushed, hlog, tcp, hit, jn, sp>>
    /\ UNCHANGED <<coreVars, tlsVars, exceptThread>>

\* vlc_restorecancel (state); that closes the region
RestoreClose(t) ==
    /\ pc[t] = "idle"
    /\ reg[t].open
    /\ IF RestoreAssert(t)
       THEN /\ killable' = RestoreKillable(t, reg[t].state)
            /\ reg' = [reg EXCEPT ![t] = NoReg]
            /\ UNCHANGED <<pc, aborted>>
       ELSE /\ Abort
            /\ UNCHANGED <<killable, reg>>
    /\ UNCHANGED <<stk, now, ticks, mx_owner, mx_depth, ev, cv_handle, cw, wt>>
    /\ UNCHANGED <<th_rec, killed, apc, ended>>
    /\ UNCHANGED <<th_alloc, th_data, cleaners, pushed, hlog, tcp, hit, jn, sp>>
    /\ UNCHANGED <<tlsVars, exceptThread>>

\* vlc_restorecancel (state), with any state, outside a region
UserRestore(t, state) ==
    /\ pc[t] = "idle"
    /\ ~reg[t].open
    /\ IF RestoreAssert(t)
       THEN /\ killable' = RestoreKillable(t, state)
            /\ UNCHANGED <<pc, aborted>>
       ELSE /\ Abort
            /\ UNCHANGED killable
    /\ UNCHANGED <<stk, now, ticks, mx_owner, mx_depth, ev, cv_handle, cw, wt>>
    /\ UNCHANGED <<th_rec, killed, apc, ended>>
    /\ UNCHANGED <<thVars, tlsVars, exceptThread>>

\* vlc_testcancel (), called by the user
UserTestCancel(t) ==
    /\ pc[t] = "idle"
    /\ Call(t, "tc_test", "idle")
    /\ UNCHANGED <<sysVars, wt>>
    /\ UNCHANGED exceptCore

\* if (th == NULL) return; if (th->killable && th->killed) ...
TestCancelTest(t) ==
    /\ pc[t] = "tc_test"
    /\ IF TestCancelHit(t)
       THEN /\ pc' = [pc EXCEPT ![t] = "tc_hit"]
            /\ UNCHANGED stk
       ELSE /\ pc' = [pc EXCEPT ![t] = RetLabel(t)]
            /\ stk' = PopStk(t)
    /\ UNCHANGED <<sysVars, wt>>
    /\ UNCHANGED exceptCore

\* state = vlc_savecancel (); with vlc_restorecancel (state) as the next call
PairSave(t) ==
    /\ pc[t] = "idle"
    /\ sp' = [sp EXCEPT ![t] = [state |-> SaveCancelRet(t), kb |-> killable[t],
                                kd |-> killed[t], done |-> FALSE]]
    /\ killable' = SaveCancelKillable(t)
    /\ pc' = [pc EXCEPT ![t] = "sr_mid"]
    /\ UNCHANGED <<stk, sysVars, wt>>
    /\ UNCHANGED <<th_rec, killed, apc, ended>>
    /\ UNCHANGED <<th_alloc, th_data, cleaners, pushed, hlog, tcp, hit, jn, reg>>
    /\ UNCHANGED <<tlsVars, exceptThread>>

\* vlc_restorecancel (state);
PairRestore(t) ==
    /\ pc[t] = "sr_mid"
    /\ IF RestoreAssert(t)
       THEN /\ killable' = RestoreKillable(t, sp[t].state)
            /\ sp' = [sp EXCEPT ![t].done = TRUE]
            /\ pc' = [pc EXCEPT ![t] = "idle"]
            /\ UNCHANGED aborted
       ELSE /\ Abort
            /\ UNCHANGED <<killable, sp>>
    /\ UNCHANGED <<stk, now, ticks, mx_owner, mx_depth, ev, cv_handle, cw, wt>>
    /\ UNCHANGED <<th_rec, killed, apc, ended>>
    /\ UNCHANGED <<th_alloc, th_data, cleaners, pushed, hlog, tcp, hit, jn, reg>>
    /\ UNCHANGED <<tlsVars, exceptThread>>

\* ------------------------------------------------------------------- timers
\* tm_regs[i] holds the timer-queue timers of the OS whose callback is
\* vlc_timer_do on timer i: [id, due, period, fired, running, deleted], the
\* times in milliseconds. A timer-queue timer deleted while its callback runs
\* stays, deleted, until the callback returns; it does not fire again.
\* value = (value + 999) / 1000;
TimerMs(v) == CDiv(v + 999, MsDiv)

\* A schedule that forgets DeleteTimerQueueTimer.
DeleteRegNone(regs, h) == regs

\* DeleteTimerQueueTimer (NULL, h, ...): the timer-queue timer h is no more,
\* or is deleted once its callback has returned.
DeleteReg(regs, h) ==
    {r \in regs : r.id # h} \cup
    {[r EXCEPT !.deleted = TRUE] : r \in {q \in regs : q.id = h /\ q.running}}

\* The timer-queue timers that can still fire.
Armed(i) == {r \in tm_regs[i] : ~r.deleted}

\* vlc_timer_create (&i, func, data)
vlc_timer_create(t, i) ==
    /\ pc[t] = "idle"
    /\ ~tm_live[i]
    /\ tm_live' = [tm_live EXCEPT ![i] = TRUE]
    /\ tm_handle' = [tm_handle EXCEPT ![i] = INVALID_HANDLE_VALUE]
    /\ UNCHANGED <<tm_regs, tm_next, ts>>
    /\ UNCHANGED <<coreVars, canVars, lockVars, mwVars, thVars, tlsVars, recVars, keyVars>>

\* vlc_timer_destroy (i); DeleteTimerQueueTimer with INVALID_HANDLE_VALUE
\* waits for the callback to return.
vlc_timer_destroy(t, i) ==
    /\ pc[t] = "idle"
    /\ tm_live[i]
    /\ \A r \in tm_regs[i] : r.id = tm_handle[i] => ~r.running
    /\ tm_regs' = [tm_regs EXCEPT ![i] = IF tm_handle[i] # INVALID_HANDLE_VALUE
                                         THEN DeleteReg(@, tm_handle[i]) ELSE @]
    /\ tm_live' = [tm_live EXCEPT ![i] = FALSE]
    /\ tm_handle' = [tm_handle EXCEPT ![i] = INVALID_HANDLE_VALUE]
    /\ UNCHANGED <<tm_next, ts>>
    /\ UNCHANGED <<coreVars, canVars, lockVars, mwVars, thVars, tlsVars, recVars, keyVars>>

\* vlc_timer_schedule (i, absolute, value, interval)
vlc_timer_schedule(t, i, absolute, value, interval) ==
    /\ pc[t] = "idle"
    /\ tm_live[i]
    /\ ts' = [ts EXCEPT ![t] = [timer |-> i, absolute |-> absolute, value |-> value,
                                interval |-> interval]]
    /\ pc' = [pc EXCEPT ![t] = "ts_delete"]
    /\ UNCHANGED <<stk, sysVars, wt>>
    /\ UNCHANGED <<tm_live, tm_handle, tm_regs, tm_next>>
    /\ UNCHANGED <<canVars, lockVars, mwVars, thVars, tlsVars, recVars, keyVars>>

\* if (timer->handle != INVALID_HANDLE_VALUE) { DeleteTimerQueueTimer (...);
\* timer->handle = INVALID_HANDLE_VALUE; }
TimerScheduleDelete(t) ==
    /\ pc[t] = "ts_delete"
    /\ LET i == ts[t].timer
       IN  IF tm_handle[i] # INVALID_HANDLE_VALUE
           THEN /\ tm_regs' = [tm_regs EXCEPT ![i] = DeleteReg(@, tm_handle[i])]
                /\ tm_handle' = [tm_handle EXCEPT ![i] = INVALID_HANDLE_VALUE]
           ELSE UNCHANGED <<tm_regs, tm_handle>>
    /\ pc' = [pc EXCEPT ![t] = "ts_create"]
    /\ UNCHANGED <<stk, sysVars, wt>>
    /\ UNCHANGED <<tm_live, tm_next, ts>>
    /\ UNCHANGED <<canVars, lockVars, mwVars, thVars, tlsVars, recVars, keyVars>>

\* if (value == 0) return; ... if (!CreateTimerQueueTimer (&timer->handle, ...))
\* abort (); whether the OS makes the timer is up to the OS.
TimerScheduleCreate(t) ==
    /\ pc[t] = "ts_create"
    /\ LET i == ts[t].timer
           first == IF ts[t].absolute THEN ts[t].value - mdate ELSE ts[t].value
       IN  IF ts[t].value = 0
           THEN /\ pc' = [pc EXCEPT ![t] = "idle"]
                /\ UNCHANGED <<aborted, tm_regs, tm_handle, tm_next>>
           ELSE \E ok \in BOOLEAN :
                  IF ok
                  THEN /\ tm_regs' = [tm_regs EXCEPT ![i] = @ \cup
                              {[id |-> tm_next + 1, due |-> TimerMs(first),
                                period |-> TimerMs(ts[t].interval), fired |-> FALSE,
                                running |-> FALSE, deleted |-> FALSE]}]
                       /\ tm_handle' = [tm_handle EXCEPT ![i] = tm_next + 1]
                       /\ tm_next' = tm_next + 1
                       /\ pc' = [pc EXCEPT ![t] = "idle"]
                       /\ UNCHANGED aborted
                  ELSE /\ Abort
                       /\ UNCHANGED <<tm_regs, tm_handle, tm_next>>
    /\ ts' = [ts EXCEPT ![t] = NoTs]
    /\ UNCHANGED <<stk, now, ticks, mx_owner, mx_depth, ev, cv_handle, cw, wt>>
    /\ UNCHANGED tm_live
    /\ UNCHANGED <<canVars, lockVars, mwVars, thVars, tlsVars, recVars, keyVars>>

\* vlc_timer_do (timer, TRUE), called by the OS for a timer-queue timer that is
\* due: timer->func (timer->data), the user's, starts.
vlc_timer_do(i) ==
    /\ ~aborted
    /\ \E r \in Armed(i) :
          /\ ~r.fired /\ ~r.running
          /\ tm_regs' = [tm_regs EXCEPT ![i] = (@ \ {r}) \cup {[r EXCEPT !.running = TRUE]}]
    /\ UNCHANGED <<tm_live, tm_handle, tm_next, ts>>
    /\ UNCHANGED <<coreVars, canVars, lockVars, mwVars, thVars, tlsVars, recVars, keyVars>>

\* timer->func (timer->data) returns.
TimerDone(i) ==
    /\ ~aborted
    /\ \E r \in tm_regs[i] :
          /\ r.running
          /\ tm_regs' = [tm_regs EXCEPT ![i] = (@ \ {r}) \cup
                 (IF r.deleted THEN {} ELSE {[r EXCEPT !.running = FALSE, !.fired = TRUE]})]
    /\ UNCHANGED <<tm_live, tm_handle, tm_next, ts>>
    /\ UNCHANGED <<coreVars, canVars, lockVars, mwVars, thVars, tlsVars, recVars, keyVars>>

\* ------------------------------------------------------- specifications
\* The steps every specification shares: the waits and the condition variable.
WaitStep(t) ==
    \/ WaitStart(t)
    \/ WaitReturn(t)
    \/ CondEnter(t)
    \/ CondTop(t)
    \/ CondRelock(t)
    \/ CondReset(t)

\* Threads that take and release the read/write lock, each releasing only
\* what it holds; a thread takes the write lock only when it holds nothing.
RwStep(t) ==
    \/ (~wheld[t] /\ rheld[t] < MaxRead /\ vlc_rwlock_rdlock(t))
    \/ RdLockEnter(t)
    \/ RdLockLoop(t)
    \/ (~RwHolds(t) /\ vlc_rwlock_wrlock(t))
    \/ WrLockEnter(t)
    \/ WrLockLoop(t)
    \/ (RwHolds(t) /\ vlc_rwlock_unlock(t))
    \/ RdUnlockEnter(t)
    \/ vlc_rwlock_rdunlock(t)
    \/ WrUnlockEnter(t)
    \/ vlc_rwlock_wrunlock(t)

RwThreads == 1..NRw

RwNext == \E t \in RwThreads : RwStep(t) \/ WaitStep(t)

SpecRw == Init /\ [][RwNext]_vars

\* Threads that lock, try and unlock the static mutexes, each unlocking only
\* what it has locked, and locking only what it does not hold.
MxStep(t) ==
    \/ \E m \in StaticMutexes : m \notin sm_held[t] /\ StaticLock(t, m)
    \/ StaticLockEnter(t)
    \/ StaticLockLoop(t)
    \/ StaticLockWoke(t)
    \/ \E m \in StaticMutexes : StaticTrylock(t, m)
    \/ StaticTrylockEnter(t)
    \/ StaticTrylockBody(t)
    \/ \E m \in StaticMutexes : m \in sm_held[t] /\ StaticUnlock(t, m)
    \/ StaticUnlockEnter(t)
    \/ StaticUnlockBody(t)

MxThreads == 1..NMx

MxNext == \E t \in MxThreads : MxStep(t) \/ WaitStep(t)

SpecMx == Init /\ [][MxNext]_vars

\* C3: a static mutex that starts all zero, with no init call, gives mutual
\* exclusion under any interleaving of lock, trylock and unlock: at most one
\* thread is between a successful acquisition and its unlock, locked is true
\* exactly then, and vlc_mutex_trylock returns EBUSY exactly when the mutex is
\* held, and 0 with the mutex taken otherwise.
C3_StaticMutex ==
    /\ [](\A m \in StaticMutexes :
            /\ Cardinality(SmHolders(m)) <= 1
            /\ sm_locked[m] <=> SmHolders(m) # {})
    /\ [][\A t \in Threads :
            (pc[t] = "st_body" /\ pc'[t] # "st_body") =>
                IF SmHolders(ml[t].m) # {}
                THEN ml'[t].rv = "EBUSY" /\ sm_held' = sm_held
                ELSE /\ ml'[t].rv = "0"
                     /\ {u \in Threads : ml[t].m \in sm_held'[u]} = {t}]_vars

\* One thread holds the static mutex, another is blocked in vlc_mutex_lock on
\* it, and a trylock has just answered EBUSY.
C3_Witness ==
    \E m \in StaticMutexes : \E t, u \in Threads :
        /\ t # u /\ m \in sm_held[t] /\ sm_cont[m] > 0
        /\ pc[u] = "w_blocked" /\ ml[u].m = m
        /\ ml[t].rv = "EBUSY"

\* Threads that wait on, signal and broadcast the condition variable "ucv",
\* each call made with the mutex "um" held.
CondCall(t) ==
    \/ UserLock(t)
    \/ UserUnlock(t)
    \/ UserWait(t, "ucv")
    \/ UserBroadcast(t, "ucv")
    \/ UserSignal(t, "ucv")

CondThreads == 1..NCond

CondNext == \E t \in CondThreads : CondCall(t) \/ WaitStep(t)

SpecCond == Init /\ [][CondNext]_vars

\* The scheduler lets every thread that can take a step inside a function
\* take it, a thread that finds the mutex free again and again gets it, and
\* a thread that holds the mutex lets go of it; whether a thread at rest
\* makes another call is up to the program.
SpecCondFair ==
    /\ SpecCond
    /\ \A t \in CondThreads : SF_vars(WaitStep(t)) /\ WF_vars(UserUnlock(t))

\* Threads that call vlc_cond_timedwait on the three kinds of condition
\* variable and broadcast them, with the mutex "um" held, while the clock advances.
TimedCall(t) ==
    \/ UserLock(t)
    \/ UserUnlock(t)
    \/ \E c \in UserCondVars : \E d \in Deadlines : UserTimedWait(t, c, d)
    \/ \E c \in UserCondVars : UserBroadcast(t, c)

TimedInside(t) ==
    \/ WaitStep(t)
    \/ CondStaticReturn(t)
    \/ WaitTimeout(t)
    \/ MwaitTest(t)
    \/ MwaitLoop(t)

TimedThreads == 1..NTimed

TimedNext == Tick \/ \E t \in TimedThreads : TimedCall(t) \/ TimedInside(t)

SpecTimed == Init /\ [][TimedNext]_vars

\* The first thread is the main thread: it has no thread record. The others
\* are the threads vlc_clone makes; until then they rest at "idle" with neither
\* a record nor a thread_key value.
MainThread == 1
Running(t) == t = MainThread \/ th_rec[t]

\* The steps inside the functions that start, end, join and cancel threads.
ThreadInside(t) ==
    \/ vlc_entry(t)
    \/ ThreadCleanupLock(t)
    \/ ThreadCleanupScan(t)
    \/ ThreadEnd(t)
    \/ TestCancelStart(t)
    \/ TestCancelLoop(t)

\* The main thread starts the workers, the subject first and each further one
\* when the one before has ended; it cancels the subject and joins it. The
\* subject pushes and pops cleanup handlers, sleeps, waits on the condition
\* variable "ucv" with the mutex "um" (nobody signals it), joins the other
\* workers, and returns from its entry function with no handler pushed and
\* the mutex not held. The other workers run and return.
Subject == MainThread + 1

CanCall(t) ==
    \/ \E w \in Threads :
          /\ t = MainThread /\ w # MainThread
          /\ w > Subject + 1 => ended[w - 1]
          /\ vlc_clone(t, w)
    \/ (t = MainThread /\ ~apc[Subject] /\ ~killed[Subject] /\ vlc_cancel(t, Subject))
    \/ \E w \in Threads :
          /\ t = Subject /\ th_rec[t] /\ w # MainThread
          /\ \A u \in Threads : jn[u] # w
          /\ vlc_join(t, w)
    \/ (t = MainThread /\ (\A u \in Threads : jn[u] # Subject) /\ vlc_join(t, Subject))
    \/ (t = Subject /\ th_rec[t] /\ Len(pushed[t]) < MaxPush
          /\ CleanupPush(t, Len(pushed[t]) + 1))
    \/ (t = Subject /\ th_rec[t] /\ CleanupPop(t))
    \/ (t = Subject /\ th_rec[t] /\ UserSleep(t, SleepStatic))
    \/ (t = Subject /\ th_rec[t] /\ UserLock(t))
    \/ UserUnlock(t)
    \/ UserWait(t, "ucv")
    \/ (pushed[t] = <<>> /\ mx_owner["um"] # t /\ EntryReturn(t))

CanInside(t) ==
    \/ WaitStart(t)
    \/ WaitReturn(t)
    \/ CondEnter(t)
    \/ CondTop(t)
    \/ CondRelock(t)
    \/ MwaitTest(t)
    \/ MwaitLoop(t)
    \/ JoinTop(t)
    \/ JoinWoke(t)
    \/ ThreadInside(t)

CanThreads == 1..NCan

CanNext == \E t \in CanThreads : CanCall(t) \/ CanInside(t)

SpecCan == Init /\ [][CanNext]_vars

\* The scheduler runs every thread that can take a step inside a function.
SpecCanFair == SpecCan /\ \A t \in CanThreads : WF_vars(CanInside(t))

Reverse(q) == [i \in 1..Len(q) |-> q[Len(q) + 1 - i]]

\* C6: a worker that vlc_cancel finds blocked in vlc_cond_wait, msleep or
\* vlc_join with cancellation enabled never gets back to the code after the
\* blocking call, terminates, and has by then run every cleanup handler on
\* its stack, once each, the most recently pushed first; no vlc_join stays
\* blocked on a thread that has ended, and the main thread's vlc_join on the
\* cancelled thread returns. (Only the subject is cancelled.)
C6_CancelBlocked ==
    /\ [](\A t \in Threads : hit[t] => pc[t] # "idle")
    /\ [](\A t \in Threads : (hit[t] /\ ended[t]) => hlog[t] = Reverse(pushed[t]))
    /\ [](\A t \in Threads : hit[t] => (pc[t] \in {"th_end", "ended"} =>
                                           hlog[t] = Reverse(pushed[t])))
    /\ [](\A j \in Threads : ~(Joining(j, jn[j]) /\ ended[jn[j]]))
    /\ hit[Subject] ~> ended[Subject]
    /\ (jn[MainThread] = Subject /\ hit[Subject]) ~> (jn[MainThread] = NoThread)

\* The subject was cancelled while blocked in vlc_join with two handlers
\* pushed, has run both and ended, and the main thread's vlc_join on it has
\* returned and freed its record.
C6_Witness ==
    /\ hit[Subject] /\ ended[Subject]
    /\ jn[Subject] # NoThread
    /\ Len(hlog[Subject]) = 2
    /\ ~th_alloc[Subject] /\ jn[MainThread] = NoThread

\* The main thread creates keys with destructors, one after the other, and
\* starts, cancels and joins a worker. The worker sets its values for the live
\* keys, sleeps, and returns from its entry function. (The values of a key
\* are per thread: further workers would not meet.)
TlsCall(t) ==
    \/ \E k \in Keys :
          /\ t = MainThread
          /\ k > 1 => tvar[k - 1].live
          /\ vlc_threadvar_create(t, k, TRUE)
    \/ (t = MainThread /\ vlc_clone(t, Subject))
    \/ (t = MainThread /\ ~apc[Subject] /\ ~killed[Subject] /\ vlc_cancel(t, Subject))
    \/ (t = MainThread /\ jn[t] = NoThread /\ vlc_join(t, Subject))
    \/ \E k \in Keys : \E v \in Values \cup {0} : th_rec[t] /\ vlc_threadvar_set(t, k, v)
    \/ (th_rec[t] /\ UserSleep(t, SleepStatic))
    \/ EntryReturn(t)

TlsInside(t) ==
    \/ WaitStart(t)
    \/ WaitReturn(t)
    \/ MwaitTest(t)
    \/ MwaitLoop(t)
    \/ JoinTop(t)
    \/ JoinWoke(t)
    \/ ThreadInside(t)
    \/ ThreadCleanupSet(t)
    \/ ThreadCleanupDestroy(t)
    \/ ThreadvarCreateLock(t)
    \/ ThreadvarCreateLink(t)

TlsThreads == {MainThread, Subject}

TlsNext == \E t \in TlsThreads : TlsCall(t) \/ TlsInside(t)

SpecTls == Init /\ [][TlsNext]_vars

\* The keys whose destructor thread t's exit owes a call: live, with a
\* destructor, and with a value when t entered vlc_thread_cleanup.
Owed(t) == {k \in Keys : tvar[k].live /\ tvar[k].destroy /\ snap[t][k] # 0}

\* C7: when a worker has exited, normally or by cancellation,
\* vlc_thread_cleanup has called the destructor of exactly the keys for which
\* the thread had a non-null value, once each, with that value, and with the
\* thread's value for the key already NULL at the call; and while it exits
\* it never calls a destructor twice, nor one of a key without a value.
C7_Destructors ==
    \A t \in Threads :
        /\ \A i \in 1..Len(dlog[t]) :
              /\ dlog[t][i].key \in Owed(t)
              /\ dlog[t][i].value = snap[t][dlog[t][i].key]
              /\ dlog[t][i].cur = 0
              /\ \A j \in 1..Len(dlog[t]) : dlog[t][j].key = dlog[t][i].key => j = i
        /\ ended[t] => {dlog[t][i].key : i \in 1..Len(dlog[t])} = Owed(t)

\* With two live keys, a worker that had a value for one of them only was
\* cancelled in msleep and has ended with that one destructor called.
C7_Witness ==
    \E t \in Threads :
        /\ ended[t] /\ th_data[t] = "NULL"
        /\ Len(dlog[t]) = 1 /\ dlog[t][1].value = MaxVal
        /\ \E k \in Keys : tvar[k].live /\ snap[t][k] = 0

\* The main thread starts a worker and cancels it. Both threads call
\* vlc_savecancel and vlc_restorecancel, as a region with other calls inside
\* and as a pair with nothing in between; the worker also sleeps, in a region
\* or outside, and the clock advances.
SaveCall(t) ==
    \/ (t = MainThread /\ vlc_clone(t, Subject))
    \/ (t = MainThread /\ ~apc[Subject] /\ ~killed[Subject] /\ vlc_cancel(t, Subject))
    \/ (Running(t) /\ SaveOpen(t))
    \/ RestoreClose(t)
    \/ (Running(t) /\ PairSave(t))
    \/ (th_rec[t] /\ UserSleep(t, SleepStatic))

SaveInside(t) ==
    \/ PairRestore(t)
    \/ WaitStart(t)
    \/ WaitReturn(t)
    \/ WaitTimeout(t)
    \/ MwaitTest(t)
    \/ MwaitLoop(t)
    \/ ThreadInside(t)

SaveThreads == {MainThread, Subject}

SaveNext == Tick \/ \E t \in SaveThreads : SaveCall(t) \/ SaveInside(t)

SpecSave == Init /\ [][SaveNext]_vars

\* C8: vlc_savecancel with its result passed straight to vlc_restorecancel
\* leaves killable and killed (and the queued cancellation) of the thread as
\* they were before the pair, never aborts, and between the two calls
\* cancellation is disabled and killed is as before.
C8_SaveRestore ==
    /\ [](\A t \in Threads :
            pc[t] = "sr_mid" => (~killable[t] /\ killed[t] = sp[t].kd))
    /\ [][\A t \in Threads :
            (pc[t] = "sr_mid" /\ pc'[t] # "sr_mid") =>
                /\ pc'[t] = "idle"
                /\ killable'[t] = sp[t].kb
                /\ killed'[t] = sp[t].kd
                /\ apc'[t] = apc[t]]_vars

\* A worker in a region with cancellation disabled, already cancelled
\* (killed), has done the pair.
C8_Witness ==
    \E t \in Threads :
        /\ th_rec[t] /\ pc[t] = "idle"
        /\ sp[t].done /\ ~sp[t].kb /\ sp[t].kd
        /\ reg[t].open /\ ~killable[t] /\ killed[t]

\* Threads that lock and unlock the static mutexes and the read/write lock
\* and also unlock what they do not hold. A run uses either one static
\* mutex or the read/write lock, and a thread holds a lock once at most.
TheMutex == CHOOSE m \in StaticMutexes : \A n \in StaticMutexes : m <= n
StaticUse == \E u \in Threads : ml[u] # NoMl \/ sm_held[u] # {}
RwUse == \E u \in Threads : RwHolds(u) \/ rw_bad[u] \/ (pc[u] # "idle" /\ ml[u] = NoMl)

MisCall(t) ==
    \/ (~RwUse /\ sm_held[t] = {} /\ StaticLock(t, TheMutex))
    \/ (~RwUse /\ StaticUnlock(t, TheMutex))
    \/ (~StaticUse /\ ~RwHolds(t) /\ vlc_rwlock_rdlock(t))
    \/ (~StaticUse /\ ~RwHolds(t) /\ vlc_rwlock_wrlock(t))
    \/ (~StaticUse /\ vlc_rwlock_unlock(t))

MisInside(t) ==
    \/ StaticLockEnter(t)
    \/ StaticLockLoop(t)
    \/ StaticLockWoke(t)
    \/ StaticUnlockEnter(t)
    \/ StaticUnlockBody(t)
    \/ RdLockEnter(t)
    \/ RdLockLoop(t)
    \/ WrLockEnter(t)
    \/ WrLockLoop(t)
    \/ RdUnlockEnter(t)
    \/ vlc_rwlock_rdunlock(t)
    \/ WrUnlockEnter(t)
    \/ vlc_rwlock_wrunlock(t)
    \/ WaitStep(t)

MisThreads == 1..NMis

MisNext == \E t \in MisThreads : MisCall(t) \/ MisInside(t)

SpecMis == Init /\ [][MisNext]_vars

\* The lock state is as before and the process has aborted.
StaticAborts == aborted' /\ sm_locked' = sm_locked
RwAborts == aborted' /\ readers' = readers /\ writer' = writer

\* C9 as stated: a vlc_mutex_unlock on a static mutex, or a vlc_rwlock_unlock,
\* by a thread that does not hold the lock always ends in a failed assertion
\* and leaves locked, readers and writer as they were.
C9_MisuseAlwaysAborts ==
    [][\A t \in Threads :
        /\ (sm_bad[t] /\ pc[t] = "su_body" /\ pc'[t] # "su_body") => StaticAborts
        /\ (rw_bad[t] /\ pc[t] \in {"rdu_body", "wru_body"} /\ pc'[t] # pc[t]) => RwAborts]_vars

\* C9, amended: an unlock by a thread that does not hold the lock ends in a
\* failed assertion, the lock state unchanged, when no thread holds the lock
\* at the assertion (locked is false; readers is 0 on the read path), and on
\* the write path (lock->writer was set when the unlock looked). When another
\* thread holds the static mutex, or others hold the read/write lock for
\* reading, the unlock goes through: locked becomes false, readers goes down
\* by one.
C9_MisuseAbortsWhenUnheld ==
    [][\A t \in Threads :
        /\ (sm_bad[t] /\ pc[t] = "su_body" /\ pc'[t] # "su_body") =>
              IF ~sm_locked[ml[t].m] THEN StaticAborts
              ELSE ~aborted' /\ ~sm_locked'[ml[t].m]
        /\ (rw_bad[t] /\ pc[t] = "wru_body" /\ pc'[t] # "wru_body") => RwAborts
        /\ (rw_bad[t] /\ pc[t] = "rdu_body" /\ pc'[t] # "rdu_body") =>
              IF readers = 0 THEN RwAborts
              ELSE ~aborted' /\ readers' = readers - 1 /\ writer' = writer]_vars

\* A thread unlocked a static mutex twice; the second unlock found it not
\* locked and its assertion has failed.
C9_Witness ==
    /\ aborted
    /\ \E t \in Threads : sm_bad[t] /\ mx_owner["super"] = t /\ ~sm_locked[ml[t].m]

\* One thread to start, cancel and join, one worker of each kind.
RecThreads == {MainThread, Subject, Subject + 1}

\* The main thread starts workers, joinable or detached, cancels them while
\* it holds their handle, and joins the joinable ones; a worker sleeps, joins
\* a joinable worker nobody else joins, and returns from its entry function.
RecCall(t) ==
    \/ \E w \in RecThreads : t = MainThread /\ w # MainThread /\ vlc_clone(t, w)
    \/ \E w \in RecThreads : t = MainThread /\ w # MainThread /\ vlc_clone_detach(t, w)
    \/ \E w \in RecThreads :
          /\ t = MainThread /\ ~apc[w] /\ ~killed[w]
          /\ vlc_cancel(t, w)
    \/ \E w \in RecThreads :
          /\ Running(t) /\ w # MainThread
          /\ ~detached[w] /\ \A u \in Threads : jn[u] # w
          /\ vlc_join(t, w)
    \/ (th_rec[t] /\ UserSleep(t, SleepStatic))
    \/ EntryReturn(t)

RecInside(t) ==
    \/ WaitStart(t)
    \/ WaitReturn(t)
    \/ MwaitTest(t)
    \/ MwaitLoop(t)
    \/ JoinTop(t)
    \/ JoinWoke(t)
    \/ ThreadInside(t)


RecNext == \E t \in RecThreads : RecCall(t) \/ RecInside(t)

SpecRec == Init /\ [][RecNext]_vars

\* C11: the record of a thread is freed at most once, by the thread itself in
\* vlc_thread_cleanup when it is detached and by vlc_join when it is
\* joinable, and then only when the thread has ended; a detached thread that
\* has ended has freed its record; and once the record is freed the thread is
\* past every use of it (it only ends) and nobody is in vlc_join on it.
C11_RecordFreedOnce ==
    \A w \in Threads :
        /\ Len(th_free[w]) <= 1
        /\ th_alloc[w] => th_free[w] = <<>>
        /\ th_free[w] # <<>> =>
              /\ th_free[w] = IF detached[w] THEN <<"self">> ELSE <<"join">>
              /\ pc[w] \in {"th_end", "ended", "aborted"}
              /\ \A j \in Threads : jn[j] # w
        /\ th_free[w] = <<"join">> => ended[w]
        /\ (detached[w] /\ ended[w]) => th_free[w] = <<"self">>

\* A detached worker was cancelled in its sleep and has freed its record and
\* ended; a joinable one has been joined, and its joiner freed the record.
C11_Witness ==
    \E w, x \in Threads :
        /\ detached[w] /\ ended[w] /\ killed[w] /\ th_free[w] = <<"self">>
        /\ ~detached[x] /\ ended[x] /\ th_free[x] = <<"join">>

\* The calls of the cancellation API a thread makes on itself.
SelfCancelCall(t) ==
    \/ SaveOpen(t)
    \/ RestoreClose(t)
    \/ (Len(pushed[t]) < MaxPush /\ CleanupPush(t, Len(pushed[t]) + 1))
    \/ CleanupPop(t)
    \/ UserTestCancel(t)
    \/ UserSleep(t, IF th_rec[t] THEN SleepStatic ELSE 0)

\* The main thread, which has no record, and a worker it starts and cancels
\* make the same calls; the main thread also restores any state. The clock
\* stands still: the worker sleeps until it is cancelled, the main thread
\* sleeps for no time.
NoRecCall(t) ==
    \/ (t = MainThread /\ vlc_clone(t, Subject))
    \/ (t = MainThread /\ ~apc[Subject] /\ ~killed[Subject] /\ vlc_cancel(t, Subject))
    \/ \E state \in BOOLEAN : t = MainThread /\ UserRestore(t, state)
    \/ (Running(t) /\ SelfCancelCall(t))

NoRecInside(t) ==
    \/ TestCancelTest(t)
    \/ WaitStart(t)
    \/ WaitReturn(t)
    \/ MwaitTest(t)
    \/ MwaitLoop(t)
    \/ ThreadInside(t)

NoRecThreads == {MainThread, Subject}

NoRecNext == \E t \in NoRecThreads : NoRecCall(t) \/ NoRecInside(t)

SpecNoRec == Init /\ [][NoRecNext]_vars

\* C12: on a thread without a record (one vlc_clone did not start), vlc_savecancel, vlc_restorecancel,
\* vlc_testcancel and the push and pop of vlc_control_cancel leave killable,
\* killed and the list of cleanup handlers as they were and never take the
\* thread to the cancellation path or to its end; no assertion fails; and
\* vlc_savecancel returns false.
C12_NoRecordNoOp ==
    /\ ~aborted
    /\ \A t \in Threads : (~th_rec[t] /\ ~th_alloc[t]) =>
          /\ ~killable[t] /\ ~killed[t] /\ ~apc[t]
          /\ cleaners[t] = <<>> /\ hlog[t] = <<>>
          /\ th_data[t] \in {"none", "data"}
          /\ ~ended[t]
          /\ pc[t] \notin {"tc_hit", "tc_loop", "tcl_lock", "tcl_scan", "th_end", "ended"}
          /\ reg[t].open => ~reg[t].state

\* The main thread is in vlc_testcancel inside a region it opened with
\* vlc_savecancel, with two handlers pushed, while the worker was cancelled
\* and has ended.
C12_Witness ==
    /\ ~th_rec[MainThread] /\ pc[MainThread] = "tc_test"
    /\ reg[MainThread].open /\ Len(pushed[MainThread]) = 2
    /\ ended[Subject] /\ killed[Subject]

\* A worker that keeps reaching cancellation points with cancellation
\* enabled: vlc_testcancel, msleep for no time (mwait with a deadline that
\* has passed) and msleep for some time; the main thread starts it and
\* cancels it once.
PointCall(t) ==
    \/ (th_rec[t] /\ UserTestCancel(t))
    \/ (th_rec[t] /\ UserSleep(t, 0))
    \/ (th_rec[t] /\ UserSleep(t, SleepStatic))

PointMain(t) ==
    \/ (t = MainThread /\ vlc_clone(t, Subject))
    \/ (t = MainThread /\ ~apc[Subject] /\ ~killed[Subject] /\ vlc_cancel(t, Subject))

PointInside(t) ==
    \/ TestCancelTest(t)
    \/ WaitStart(t)
    \/ WaitReturn(t)
    \/ WaitTimeout(t)
    \/ MwaitTest(t)
    \/ MwaitLoop(t)
    \/ ThreadInside(t)

PointThreads == {MainThread, Subject}

PointNext == Tick \/ \E t \in PointThreads : PointMain(t) \/ PointCall(t) \/ PointInside(t)

SpecPoint == Init /\ [][PointNext]_vars

\* The scheduler runs every thread that can take a step, and the worker goes
\* on calling.
SpecPointFair ==
    /\ SpecPoint
    /\ \A t \in PointThreads : WF_vars(PointInside(t)) /\ WF_vars(PointCall(t))

\* C13: a worker with cancellation enabled on which vlc_cancel has been
\* called, and which keeps reaching cancellation points, terminates.
C13_CancelTerminates ==
    \A w \in Threads : (th_rec[w] /\ killable[w] /\ (apc[w] \/ killed[w])) ~> ended[w]

\* A worker that opens and closes regions with cancellation disabled and
\* reaches cancellation points inside and outside them; the main thread
\* starts it and cancels it once.
RegionCall(t) ==
    \/ (t = MainThread /\ vlc_clone(t, Subject))
    \/ (t = MainThread /\ ~apc[Subject] /\ ~killed[Subject] /\ vlc_cancel(t, Subject))
    \/ (th_rec[t] /\ SaveOpen(t))
    \/ (th_rec[t] /\ RestoreClose(t))
    \/ (th_rec[t] /\ UserTestCancel(t))
    \/ (th_rec[t] /\ UserSleep(t, 0))
    \/ (th_rec[t] /\ UserSleep(t, SleepStatic))
    \/ (~reg[t].open /\ EntryReturn(t))

RegionInside(t) ==
    \/ TestCancelTest(t)
    \/ WaitStart(t)
    \/ WaitReturn(t)
    \/ WaitTimeout(t)
    \/ MwaitTest(t)
    \/ MwaitLoop(t)
    \/ ThreadInside(t)

RegionThreads == {MainThread, Subject}

RegionNext == Tick \/ \E t \in RegionThreads : RegionCall(t) \/ RegionInside(t)

SpecRegion == Init /\ [][RegionNext]_vars

\* The scheduler runs every thread that can take a step inside a function.
SpecRegionFair == SpecRegion /\ \A t \in RegionThreads : WF_vars(RegionInside(t))

\* The labels at which a function is about to run the test of vlc_testcancel.
PointLabels == {"tc_test", "mw_enter", "mw_woke", "cw_top", "jn_top"}

\* On the cancellation path.
Cancelling(t) == pc[t] \in {"tc_hit", "tc_loop"} \/ th_data[t] = "NULL"

\* C14: inside a region with cancellation disabled a worker never takes the
\* cancellation path, whatever cancellation points it reaches and whether
\* or not the request has reached it; killed, once true, stays true; the
\* vlc_restorecancel that closes a region opened with cancellation enabled
\* leaves the thread killable with killed as it was; and a thread that is
\* killable and killed takes the cancellation path at the first test it
\* reaches, and from there terminates.
C14_DisabledDefers ==
    /\ [](\A t \in Threads : reg[t].open => ~Cancelling(t))
    /\ [][\A t \in Threads : killed[t] => killed'[t]]_vars
    /\ [][\A t \in Threads :
            (th_rec[t] /\ reg[t].open /\ ~reg'[t].open /\ ~aborted') =>
                /\ killable'[t] = reg[t].state
                /\ killed'[t] = killed[t]]_vars
    /\ [][\A t \in Threads :
            (th_rec[t] /\ killable[t] /\ killed[t]
                /\ pc[t] \in PointLabels /\ pc'[t] # pc[t]) => pc'[t] = "tc_hit"]_vars
    /\ \A t \in Threads : (pc[t] = "tc_hit") ~> ended[t]

\* Inside a region opened with cancellation enabled, the request reached the
\* worker in its sleep, and the test after the sleep let the worker go on.
C14_Witness ==
    /\ reg[Subject].open /\ reg[Subject].state
    /\ killed[Subject] /\ ~killable[Subject]
    /\ pc[Subject] = "mw_loop" /\ wt[Subject].res = "io"

\* The main thread and a worker it starts and cancels lock and unlock one
\* Static mutex; the worker also opens and closes regions with cancellation
\* disabled, calls vlc_testcancel and returns from its entry function.
StCanCall(t) ==
    \/ (t = MainThread /\ vlc_clone(t, Subject))
    \/ (t = MainThread /\ ~apc[Subject] /\ ~killed[Subject] /\ vlc_cancel(t, Subject))
    \/ (Running(t) /\ sm_held[t] = {} /\ StaticLock(t, TheMutex))
    \/ (Running(t) /\ sm_held[t] # {} /\ StaticUnlock(t, TheMutex))
    \/ (th_rec[t] /\ SaveOpen(t))
    \/ (th_rec[t] /\ RestoreClose(t))
    \/ (th_rec[t] /\ UserTestCancel(t))
    \/ (~reg[t].open /\ sm_held[t] = {} /\ EntryReturn(t))

StCanInside(t) ==
    \/ StaticLockEnter(t)
    \/ StaticLockLoop(t)
    \/ StaticLockWoke(t)
    \/ StaticUnlockEnter(t)
    \/ StaticUnlockBody(t)
    \/ CondEnter(t)
    \/ CondTop(t)
    \/ CondRelock(t)
    \/ CondReset(t)
    \/ WaitStart(t)
    \/ WaitReturn(t)
    \/ TestCancelTest(t)
    \/ ThreadInside(t)

StCanThreads == {MainThread, Subject}

StCanNext == \E t \in StCanThreads : StCanCall(t) \/ StCanInside(t)

SpecStCan == Init /\ [][StCanNext]_vars

\* Inside vlc_mutex_lock on a Static mutex, its vlc_cond_wait included.
InStaticLock(t) ==
    \/ pc[t] \in {"sl_enter", "sl_loop", "sl_woke"}
    \/ \E i \in 1..Len(stk[t]) : stk[t][i] = "sl_woke"

\* C15: a thread that takes the cancellation path, or has ended, does not
\* hold the super lock at that point and is not inside vlc_mutex_lock on a
\* Static mutex; inside vlc_mutex_lock cancellation is disabled; and between
\* calls a worker is killable exactly when it is outside the regions it
\* opened itself, so vlc_mutex_lock returned with killable as it found it.
C15_NoCancelInStaticLock ==
    \A t \in Threads :
        /\ pc[t] \in {"tc_hit", "tc_loop", "th_end", "ended"} =>
              (mx_owner["super"] # t /\ ~InStaticLock(t))
        /\ (th_rec[t] /\ InStaticLock(t)) => ~killable[t]
        /\ (th_rec[t] /\ pc[t] = "idle") => (killable[t] = ~reg[t].open)

\* The worker, killable when it called vlc_mutex_lock, was woken from its
\* wait on the super condition variable by the cancellation, holds the super
\* lock again and is about to test for cancellation.
C15_Witness ==
    /\ pc[Subject] = "cw_top" /\ cw[Subject].cv = "super"
    /\ wt[Subject].res = "io" /\ killed[Subject]
    /\ mx_owner["super"] = Subject /\ InStaticLock(Subject) /\ ml[Subject].canc

\* Three threads and two Static mutexes: the main thread locks and unlocks
\* both, the second thread the one, the third thread the other.
StLiveLocks(t) ==
    IF t = MainThread THEN {TheMutex, OtherMutex}
    ELSE IF t = Subject THEN {TheMutex} ELSE {OtherMutex}

StLiveLock(t) == \E m \in StLiveLocks(t) : m \notin sm_held[t] /\ StaticLock(t, m)

StLiveUnlock(t) == \E m \in StLiveLocks(t) : m \in sm_held[t] /\ StaticUnlock(t, m)

StLiveInside(t) ==
    \/ StaticLockEnter(t)
    \/ StaticLockLoop(t)
    \/ StaticLockWoke(t)
    \/ StaticUnlockEnter(t)
    \/ StaticUnlockBody(t)
    \/ CondEnter(t)
    \/ CondTop(t)
    \/ CondRelock(t)
    \/ CondReset(t)
    \/ WaitStart(t)
    \/ WaitReturn(t)

StLiveThreads == {MainThread, Subject, Subject + 1}

StLiveNext == \E t \in StLiveThreads : StLiveLock(t) \/ StLiveUnlock(t) \/ StLiveInside(t)

SpecStLive == Init /\ [][StLiveNext]_vars

\* Every thread that can again and again take a step inside a function takes
\* it, and every holder unlocks.
SpecStLiveFair ==
    /\ SpecStLive
    /\ \A t \in StLiveThreads : SF_vars(StLiveInside(t)) /\ WF_vars(StLiveUnlock(t))

\* Blocked in the wait of vlc_mutex_lock on a Static mutex that is not locked.
BlockedOnFree(t) ==
    /\ pc[t] = "w_blocked" /\ cw[t].cv = "super"
    /\ ~sm_locked[ml[t].m]

\* C16: no thread stays blocked for ever in vlc_mutex_lock on a Static mutex
\* whose locked is false.
C16_StaticWaitersWake == \A t \in Threads : BlockedOnFree(t) ~> ~BlockedOnFree(t)

\* Threads that create and delete keys, take and give back a static mutex,
\* set values, get cancelled and end, so that every holder of super_mutex
\* meets the others. A key is deleted when no thread has a value for it or
\* is about to call its destructor.
SuperCall(t) ==
    \/ (t = MainThread /\ vlc_clone(t, Subject))
    \/ (t = MainThread /\ ~apc[Subject] /\ ~killed[Subject] /\ vlc_cancel(t, Subject))
    \/ \E k \in Keys :
          /\ t = MainThread
          /\ k > 1 => tvar[k - 1].live
          /\ vlc_threadvar_create(t, k, TRUE)
    \/ \E k \in Keys :
          /\ t = MainThread
          /\ \A u \in Threads : tls[u][k] = 0 /\ tkey[u].key # k
          /\ k < NKeys => ~tvar[k + 1].live
          /\ vlc_threadvar_delete(t, k)
    \/ \E k \in Keys : th_rec[t] /\ ~KeyBusy(k) /\ tls[t][k] = 0 /\ vlc_threadvar_set(t, k, 1)
    \/ (Running(t) /\ sm_held[t] = {} /\ StaticLock(t, TheMutex))
    \/ (Running(t) /\ sm_held[t] = {} /\ StaticTrylock(t, TheMutex))
    \/ (Running(t) /\ sm_held[t] # {} /\ StaticUnlock(t, TheMutex))
    \/ (th_rec[t] /\ sm_held[t] = {} /\ UserTestCancel(t))
    \/ (sm_held[t] = {} /\ EntryReturn(t))

SuperInside(t) ==
    \/ TestCancelTest(t)
    \/ ThreadvarCreateLock(t)
    \/ ThreadvarCreateLink(t)
    \/ ThreadvarDeleteLock(t)
    \/ ThreadvarDeleteUnlink(t)
    \/ ThreadvarDeleteFree(t)
    \/ StaticLockEnter(t)
    \/ StaticLockLoop(t)
    \/ StaticLockWoke(t)
    \/ StaticTrylockEnter(t)
    \/ StaticTrylockBody(t)
    \/ StaticUnlockEnter(t)
    \/ StaticUnlockBody(t)
    \/ CondEnter(t)
    \/ CondTop(t)
    \/ CondRelock(t)
    \/ CondReset(t)
    \/ WaitStart(t)
    \/ WaitReturn(t)
    \/ ThreadInside(t)
    \/ ThreadCleanupSet(t)
    \/ ThreadCleanupDestroy(t)

SuperThreads == {MainThread, Subject}

SuperNext == \E t \in SuperThreads : SuperCall(t) \/ SuperInside(t)

SpecSuper == Init /\ [][SuperNext]_vars

\* Where a thread is between vlc_mutex_lock (&super_mutex) and the
\* vlc_mutex_unlock that follows it.
SuperLabels == {"sl_loop", "sl_woke", "st_body", "su_body", "tcl_scan", "tvc_link",
                "tvd_unlink"}

\* In vlc_cond_wait (&super_variable, &super_mutex), outside of the wait itself.
SuperWaitLabels == {"cw_enter", "cw_top", "cw_reset"}

\* C17: the super lock is never held while user code runs or while a thread
\* blocks: a thread that holds it is inside vlc_threadvar_create,
\* vlc_threadvar_delete, the scan of vlc_thread_cleanup or a static
\* vlc_mutex_lock, _trylock or _unlock, between the lock and the unlock, and
\* holds it once; so it is released when these return, when a destructor is
\* called, and in every wait, the one on super_variable included.
C17_SuperNotHeldOutside ==
    /\ ~aborted
    /\ mx_depth["super"] <= 1
    /\ \A t \in Threads :
          /\ mx_owner["super"] = t =>
                \/ pc[t] \in SuperLabels
                \/ pc[t] \in SuperWaitLabels /\ cw[t].cv = "super" /\ cw[t].mx = "super"
          /\ pc[t] \in {"idle", "tcl_set", "tcl_destroy", "tc_loop", "w_blocked", "wfmo",
                        "th_end", "ended"} => mx_owner["super"] # t

C17_Witness ==
    /\ pc[Subject] = "tcl_destroy"
    /\ TlsGet(Subject, 1) # 0
    /\ mx_owner["super"] = MainThread
    /\ pc[MainThread] = "cw_reset"
    /\ sm_held[Subject] = {}

\* A worker that sets values and ends, with destructors that set values again,
\* on their own key and on the others, while the main thread creates keys
\* with and without a destructor.
DtorCall(t) ==
    \/ \E k \in Keys : \E destr \in BOOLEAN :
          /\ t = MainThread
          /\ k > 1 => (tvar[k - 1].live /\ tvar[k - 1].destroy)
          /\ vlc_threadvar_create(t, k, destr)
    \/ (t = MainThread /\ vlc_clone(t, Subject))
    \/ \E k \in Keys : th_rec[t] /\ tls[t][k] = 0 /\ vlc_threadvar_set(t, k, 1)
    \/ \E k \in Keys : DestructorSet(t, k, 1)
    \/ EntryReturn(t)

DtorInside(t) ==
    \/ ThreadvarCreateLock(t)
    \/ ThreadvarCreateLink(t)
    \/ vlc_entry(t)
    \/ ThreadCleanupLock(t)
    \/ ThreadCleanupScan(t)
    \/ ThreadCleanupSet(t)
    \/ ThreadCleanupDestroy(t)
    \/ ThreadEnd(t)

DtorThreads == {MainThread, Subject}

DtorNext == \E t \in DtorThreads : DtorCall(t) \/ DtorInside(t)

SpecDtor == Init /\ [][DtorNext]_vars

SpecDtorFair == SpecDtor /\ \A t \in DtorThreads : WF_vars(DtorInside(t))

\* The values of t that vlc_thread_cleanup has to destroy.
ToDestroy(t) == {k \in Keys : tvar[k].live /\ tvar[k].destroy /\ tls[t][k] # 0}

\* C18: the cleanup restarts its scan after every destructor call, returns
\* only from a scan that found no value to destroy, so that once it is over
\* the thread has no value left for any live key with a destructor, also for
\* the values that the destructors set; and with destructors that set values
\* finitely often, the cleanup ends.
C18_CleanupComplete ==
    /\ [](\A t \in Threads : pc[t] \in {"th_end", "ended"} => ToDestroy(t) = {})
    /\ [][\A t \in Threads :
            /\ (pc[t] = "tcl_destroy" /\ pc'[t] # pc[t]) => pc'[t] = "tcl_lock"
            /\ (pc[t] = "tcl_scan" /\ pc'[t] = "th_end") => ToDestroy(t) = {}]_vars
    /\ \A t \in Threads : (pc[t] = "tcl_lock") ~> ended[t]

C18_Witness ==
    /\ ended[Subject]
    /\ resets = 2
    /\ Len(dlog[Subject]) = 4
    /\ dlog[Subject][1].key = dlog[Subject][2].key
    /\ dlog[Subject][3].key # dlog[Subject][1].key
    /\ ToDestroy(Subject) = {}

\* A worker that waits on the condition variables, with and without a
\* deadline, inside and outside a region with cancellation disabled, while
\* the main thread broadcasts and cancels it and the clock advances.
ApcDeadlines == {900, 1000000}

ApcCall(t) ==
    \/ (t = MainThread /\ vlc_clone(t, Subject))
    \/ (t = MainThread /\ ~apc[Subject] /\ ~killed[Subject] /\ vlc_cancel(t, Subject))
    \/ (t = MainThread /\ mx_owner["um"] = t /\ UserBroadcast(t, "ucv"))
    \/ (Running(t) /\ UserLock(t))
    \/ (Running(t) /\ UserUnlock(t))
    \/ (th_rec[t] /\ SaveOpen(t))
    \/ \E c \in UserCondVars : \E d \in ApcDeadlines : th_rec[t] /\ UserTimedWait(t, c, d)
    \/ (th_rec[t] /\ UserWait(t, "ucv"))

ApcInside(t) ==
    \/ WaitStep(t)
    \/ CondStaticReturn(t)
    \/ WaitTimeout(t)
    \/ MwaitTest(t)
    \/ MwaitLoop(t)
    \/ ThreadInside(t)

ApcThreads == {MainThread, Subject}

ApcNext == Tick \/ \E t \in ApcThreads : ApcCall(t) \/ ApcInside(t)

SpecApc == Init /\ [][ApcNext]_vars

\* A wait woken by an APC goes back to the top of the loop, where
\* cancellation is tested and the delay is computed again from the clock.
ApcRetries ==
    [][\A t \in Threads :
        /\ (pc[t] = "cw_relock" /\ wt[t].res = "io" /\ pc'[t] # pc[t]) =>
              (pc'[t] = "cw_top" /\ cw'[t] = cw[t])
        /\ (pc[t] = "cw_top" /\ pc'[t] # pc[t]) =>
              IF th_rec[t] /\ killable[t] /\ killed[t] THEN pc'[t] = "tc_hit"
              ELSE /\ pc'[t] = "wfmo"
                   /\ wt'[t].delay = IF cw[t].timed
                                      THEN TimedDelay(cw[t].cv, cw[t].deadline)
                                      ELSE Infinite]_vars

\* vlc_cond_timedwait returns 0 from a wait that found the event set.
ApcSignalled ==
    [][\A t \in Threads :
        /\ (wt[t].kind = "event" /\ wt[t].res # "object" /\ wt'[t].res = "object") =>
              ev'[wt[t].obj]
        /\ (pc[t] = "cw_reset" /\ cw[t].timed /\ pc'[t] # pc[t]) =>
              (cw'[t].rv = "0" <=> wt[t].res = "object")]_vars

\* The statement as made: ETIMEDOUT only with the clock of the condition
\* variable at the deadline or after it, and 0 only with the wake flag set.
C19_TimedOutAtDeadline ==
    /\ ApcRetries
    /\ [][\A t \in Threads :
            /\ cw'[t].rv = "ETIMEDOUT" /\ cw[t].rv # "ETIMEDOUT" =>
                  ClockRead(cw[t].cv) >= cw[t].deadline
            /\ cw'[t].rv = "0" /\ cw[t].rv # "0" =>
                  (cv_handle[cw[t].cv] /\ wt[t].res = "object")]_vars

\* C19: a wait of vlc_cond_wait or vlc_cond_timedwait (initialised condition
\* variable) that an APC wakes is not reported: the loop tests cancellation
\* and waits again, the delay computed again from the clock, in whole
\* milliseconds rounded down; ETIMEDOUT is returned only from a wait that ran
\* out, the time then less than a millisecond short of the deadline or past
\* it, and 0 only from a wait that found the event set; the condition
\* variable without an event sleeps and returns 0.
C19_ApcWakeRetries ==
    /\ ApcRetries
    /\ ApcSignalled
    /\ [][\A t \in Threads :
            /\ cw'[t].rv = "ETIMEDOUT" /\ cw[t].rv # "ETIMEDOUT" =>
                  /\ cv_handle[cw[t].cv]
                  /\ wt[t].res = "timeout"
                  /\ now + (MsDiv - 1) >= cw[t].deadline
            /\ cw'[t].rv = "0" /\ cw[t].rv # "0" =>
                  IF cv_handle[cw[t].cv] THEN wt[t].res = "object"
                  ELSE pc[t] = "cw_static"]_vars

\* The worker, cancellation disabled, returned ETIMEDOUT from a timed wait
\* that an APC had woken, the clock short of the deadline.
C19_Witness ==
    /\ cw[Subject].rv = "ETIMEDOUT"
    /\ killed[Subject] /\ ~killable[Subject]
    /\ now < 1000000
    /\ ticks > 0

\* A worker that sets values and ends while the main thread creates keys and
\* deletes them, whether or not the worker has a value for them.
DelCall(t) ==
    \/ \E k \in Keys :
          /\ t = MainThread
          /\ k > 1 => tvar[k - 1].live
          /\ vlc_threadvar_create(t, k, TRUE)
    \/ \E k \in Keys : t = MainThread /\ vlc_threadvar_delete(t, k)
    \/ (t = MainThread /\ vlc_clone(t, Subject))
    \/ \E k \in Keys : th_rec[t] /\ ~KeyBusy(k) /\ tls[t][k] = 0 /\ vlc_threadvar_set(t, k, 1)
    \/ EntryReturn(t)

DelInside(t) ==
    \/ ThreadvarCreateLock(t)
    \/ ThreadvarCreateLink(t)
    \/ ThreadvarDeleteLock(t)
    \/ ThreadvarDeleteUnlink(t)
    \/ ThreadvarDeleteFree(t)
    \/ vlc_entry(t)
    \/ ThreadCleanupLock(t)
    \/ ThreadCleanupScan(t)
    \/ ThreadCleanupSet(t)
    \/ ThreadCleanupDestroy(t)
    \/ ThreadEnd(t)

DelThreads == {MainThread, Subject}

DelNext == \E t \in DelThreads : DelCall(t) \/ DelInside(t)

SpecDel == Init /\ [][DelNext]_vars

\* C20: vlc_thread_cleanup never reads key->id or key->destroy of a key that
\* vlc_threadvar_delete has freed: between the unlock of super_mutex and the
\* return of the destructor the key it found is live.
C20_CleanupKeyLive ==
    \A t \in Threads : pc[t] \in {"tcl_set", "tcl_destroy"} => ~KeyFreed(t)

\* A worker with cleanup handlers and a value with a destructor, cancelled
\* while it sleeps, whose handlers and destructors may call vlc_testcancel
\* or msleep.
NestCall(t) ==
    \/ (t = MainThread /\ ~tvar[1].live /\ vlc_threadvar_create(t, 1, TRUE))
    \/ (t = MainThread /\ vlc_clone(t, Subject))
    \/ (t = MainThread /\ ~apc[Subject] /\ ~killed[Subject] /\ vlc_cancel(t, Subject))
    \/ (th_rec[t] /\ Len(pushed[t]) < MaxPush /\ CleanupPush(t, Len(pushed[t]) + 1))
    \/ (th_rec[t] /\ CleanupPop(t))
    \/ (th_rec[t] /\ ~KeyBusy(1) /\ tls[t][1] = 0 /\ vlc_threadvar_set(t, 1, 1))
    \/ (th_rec[t] /\ UserSleep(t, SleepStatic))
    \/ (pushed[t] = <<>> /\ EntryReturn(t))
    \/ \E sleep \in BOOLEAN : HandlerPoint(t, sleep)
    \/ \E sleep \in BOOLEAN : DestructorPoint(t, sleep)

NestInside(t) ==
    \/ ThreadvarCreateLock(t)
    \/ ThreadvarCreateLink(t)
    \/ WaitStart(t)
    \/ WaitReturn(t)
    \/ MwaitTest(t)
    \/ MwaitLoop(t)
    \/ TestCancelTest(t)
    \/ ThreadInside(t)
    \/ ThreadCleanupSet(t)
    \/ ThreadCleanupDestroy(t)

NestThreads == {MainThread, Subject}

NestNext == \E t \in NestThreads : NestCall(t) \/ NestInside(t)

SpecNest == Init /\ [][NestNext]_vars

\* How many times the handler h of t has been called.
HandlerRuns(t, h) == Cardinality({i \in 1..Len(hlog[t]) : hlog[t][i] = h})

\* The calls of vlc_thread_cleanup that t has made and not returned from.
CleanupsOpen(t) == Cardinality({i \in 1..Len(stk[t]) : stk[t][i] = "th_end"})

\* C21: on the cancellation path every pushed handler is called at most once
\* and vlc_thread_cleanup is entered at most once, also when a handler or a
\* destructor reaches a cancellation point with killable and killed true.
C21_ExitRunsOnce ==
    \A t \in Threads :
        /\ \A h \in 1..MaxPush : HandlerRuns(t, h) <= 1
        /\ CleanupsOpen(t) <= 1

\* Two threads that create and delete the keys, thread_key included (the
\* process attaches and detaches), in any order and at the same time.
AllKeys == Keys \cup {thread_key}

KeysCall(t) ==
    \/ \E k \in AllKeys : \E destr \in BOOLEAN :
          /\ k = thread_key => ~destr
          /\ vlc_threadvar_create(t, k, destr)
    \/ \E k \in AllKeys : vlc_threadvar_delete(t, k)

KeysInside(t) ==
    \/ ThreadvarCreateLock(t)
    \/ ThreadvarCreateLink(t)
    \/ ThreadvarDeleteLock(t)
    \/ ThreadvarDeleteUnlink(t)
    \/ ThreadvarDeleteFree(t)

KeysThreads == {MainThread, Subject}

KeysNext == \E t \in KeysThreads : KeysCall(t) \/ KeysInside(t)

SpecKeys == Init /\ [][KeysNext]_vars

\* The keys met on the way from k along prev, n of them at most.
RECURSIVE WalkPrev(_, _)
WalkPrev(k, n) ==
    IF k = NoKey \/ n = 0 THEN <<>>
    ELSE <<k>> \o WalkPrev(tvar[k].prev, n - 1)

\* for (key = vlc_threadvar_last; key != NULL; key = key->prev)
KeyWalk == WalkPrev(vlc_threadvar_last, NKeys + 2)

\* The keys created and not deleted: linked by vlc_threadvar_create and not
\* unlinked by vlc_threadvar_delete.
LinkedKeys == {k \in AllKeys : tvar[k].live /\ \A u \in Threads :
                                  ~(pc[u] = "tvd_free" /\ tv[u].key = k)}

\* C22: under any interleaving of vlc_threadvar_create and
\* vlc_threadvar_delete the key list is a well-formed doubly-linked list of
\* the live keys in creation order: the walk along prev from
\* vlc_threadvar_last meets every live key once, the newest first, and no
\* deleted key; the neighbours of a linked key point back at it; and
\* vlc_threadvar_last is NULL exactly when no key is live.
C22_KeyListWellFormed ==
    /\ Len(KeyWalk) = Len(korder)
    /\ \A i \in 1..Len(korder) : KeyWalk[i] = korder[Len(korder) + 1 - i]
    /\ {KeyWalk[i] : i \in 1..Len(KeyWalk)} = LinkedKeys
    /\ Cardinality(LinkedKeys) = Len(KeyWalk)
    /\ \A k \in LinkedKeys :
          /\ tvar[k].next # NoKey => tvar[tvar[k].next].prev = k
          /\ tvar[k].prev # NoKey => tvar[tvar[k].prev].next = k
          /\ tvar[k].next = NoKey <=> vlc_threadvar_last = k
    /\ vlc_threadvar_last = NoKey <=> LinkedKeys = {}

\* The middle key of three was deleted and created again, and one thread
\* waits for super_mutex to delete it while the other unlinks the oldest key.
C22_Witness ==
    /\ korder = <<thread_key, 2, 1>>
    /\ pc[MainThread] = "tvd_unlink" /\ tv[MainThread].key = thread_key
    /\ pc[Subject] = "tvd_lock" /\ tv[Subject].key = 2

\* Threads that create, schedule and destroy the timers, one call at a time
\* on each timer, while the OS calls back.
TimerValues == {0, 1500}
TimerIntervals == {0, 1000}
TimerBusy(i) == \E u \in Threads : ts[u].timer = i

TmCall(t) ==
    \/ \E i \in Timers : vlc_timer_create(t, i)
    \/ \E i \in Timers : ~TimerBusy(i) /\ vlc_timer_destroy(t, i)
    \/ \E i \in Timers : \E a \in BOOLEAN : \E v \in TimerValues : \E p \in TimerIntervals :
          /\ ~TimerBusy(i)
          /\ v # 0 => tm_next < MaxSched
          /\ v = 0 => (~a /\ p = 0)
          /\ vlc_timer_schedule(t, i, a, v, p)

TmInside(t) ==
    \/ TimerScheduleDelete(t)
    \/ TimerScheduleCreate(t)

TmThreads == {MainThread, Subject}

TmNext ==
    \/ \E t \in TmThreads : TmCall(t) \/ TmInside(t)
    \/ \E i \in Timers : vlc_timer_do(i)
    \/ \E i \in Timers : TimerDone(i)

SpecTm == Init /\ [][TmNext]_vars

\* C10: a timer has at most one timer-queue timer of the OS that can fire at
\* any time, the one timer->handle names, and none when handle is
\* INVALID_HANDLE_VALUE; vlc_timer_schedule has deleted the one there was when
\* it comes to create the new one; and a vlc_timer_schedule with value == 0
\* returns with none and handle == INVALID_HANDLE_VALUE.
C10_OneRegistration ==
    /\ [](\A i \in Timers :
            /\ Cardinality(Armed(i)) <= 1
            /\ \A r \in Armed(i) : r.id = tm_handle[i]
            /\ tm_handle[i] = INVALID_HANDLE_VALUE => Armed(i) = {})
    /\ [](\A t \in Threads : pc[t] = "ts_create" => Armed(ts[t].timer) = {})
    /\ [][\A t \in Threads :
            (pc[t] = "ts_create" /\ pc'[t] = "idle" /\ ts[t].value = 0) =>
                /\ {r \in tm_regs'[ts[t].timer] : ~r.deleted} = {}
                /\ tm_handle'[ts[t].timer] = INVALID_HANDLE_VALUE]_vars

\* A timer that was armed has been scheduled again: the second timer-queue
\* timer is the only one.
C10_Witness ==
    \E i \in Timers :
        /\ tm_next = 2 /\ tm_handle[i] = 2
        /\ \E r \in Armed(i) : r.id = 2 /\ r.period = 1
        /\ \E r \in tm_regs[i] : r.id = 1 /\ r.deleted

\* C4: a vlc_cond_broadcast or vlc_cond_signal wakes every current waiter:
\* every thread that is inside vlc_cond_wait on the condition variable with
\* the mutex released when the event is set eventually returns from its wait.
C4_AllWaitersWake ==
    \A t \in Threads : wt[t].owed ~> ~wt[t].owed

\* A vlc_cond_timedwait whose deadline had passed when it was called.
PastWait(t) == cw[t].timed /\ cw[t].past

\* The step that returns from vlc_cond_timedwait.
TimedReturns(t) == pc[t] \in {"cw_reset", "cw_static"} /\ pc'[t] = "idle"

\* C5 as stated: vlc_cond_timedwait called with a deadline already in the
\* past returns ETIMEDOUT without blocking, whatever the wake flag is.
C5_PastDeadlineTimesOut ==
    /\ [](\A t \in Threads : PastWait(t) => pc[t] # "w_blocked")
    /\ [][\A t \in Threads :
            (PastWait(t) /\ TimedReturns(t)) => cw'[t].rv = "ETIMEDOUT"]_vars

\* C5, amended: with a deadline already in the past, vlc_cond_timedwait on an
\* initialised condition variable never blocks; its one poll of the event
\* answers WAIT_OBJECT_0 when the wake flag is set and WAIT_TIMEOUT when it is
\* clear (a pending APC aside), and it returns 0 in the first case and
\* ETIMEDOUT in the second. On a static condition variable (no event) it
\* sleeps and returns 0.
C5_PastDeadlinePolls ==
    /\ [](\A t \in Threads :
            (PastWait(t) /\ pc[t] = "w_blocked") =>
                (~cv_handle[cw[t].cv] /\ wt[t].kind = "sleep"))
    /\ [][\A t \in Threads :
            /\ (PastWait(t) /\ pc[t] = "wfmo" /\ pc'[t] = "w_ret"
                    /\ wt[t].kind = "event" /\ ~apc[t])
                  => wt'[t].res = (IF ev[cw[t].cv] THEN "object" ELSE "timeout")
            /\ (PastWait(t) /\ TimedReturns(t))
                  => cw'[t].rv = (IF ~cv_handle[cw[t].cv] \/ wt[t].res = "object"
                                  THEN "0" ELSE "ETIMEDOUT")]_vars

\* A timed wait whose deadline had passed has polled the event of an
\* initialised condition variable, found the wake flag set, and is about to
\* return 0.
C5_Witness ==
    \E t \in Threads :
        /\ PastWait(t) /\ cv_handle[cw[t].cv]
        /\ pc[t] = "cw_reset" /\ wt[t].res = "object"

RECURSIVE SumTo(_, _)
SumTo(f, n) == IF n = 0 THEN 0 ELSE f[n] + SumTo(f, n - 1)

\* C1: in every reachable state of the read/write lock, a writer excludes
\* every reader and a reader excludes every writer (writer != 0 implies
\* readers == 0, readers > 0 implies writer == 0), at most one thread holds
\* the write lock, it is the one lock->writer names, and nobody holds a read
\* lock meanwhile.
C1_RwExclusion ==
    /\ writer # NoThread => readers = 0
    /\ readers > 0 => writer = NoThread
    /\ Cardinality({t \in Threads : wheld[t]}) <= 1
    /\ \A t \in Threads : wheld[t] => writer = t /\ \A u \in Threads : rheld[u] = 0
    /\ (\E t \in Threads : rheld[t] > 0) => readers > 0

\* The write lock is held while another thread is blocked waiting for it.
C1_Witness ==
    \E t, u \in Threads : t # u /\ wheld[t] /\ writer = t /\ pc[u] = "w_blocked"

\* C2: a thread that holds a read lock takes it again without waiting, each
\* read lock raises readers by one (readers is the number of read locks held),
\* and vlc_rwlock_wrlock returns only when readers is 0 and every read lock
\* taken has been released.
C2_RecursiveRead ==
    /\ [](aborted \/ readers = SumTo(rheld, NThreads))
    /\ [][\A t \in Threads :
            /\ (pc[t] = "rd_loop" /\ pc'[t] # "rd_loop"
                   /\ (rheld[t] > 0 \/ writer = NoThread))
                   => (pc'[t] = "idle" /\ readers' = readers + 1
                       /\ rheld'[t] = rheld[t] + 1)
            /\ (pc[t] = "wr_loop" /\ pc'[t] = "idle")
                   => (readers = 0 /\ \A u \in Threads : rheld[u] = 0)]_vars

\* A thread holds the read lock MaxRead times over while a writer is blocked.
C2_Witness ==
    \E t, u \in Threads :
        /\ rheld[t] = MaxRead /\ readers = MaxRead
        /\ pc[u] = "w_blocked" /\ InWrLock(u)

====
